---- MODULE Spec2Model ----
(***************************************************************************)
(* Model of punishments.js (Pokemon Showdown): the global and per-room     *)
(* punishment stores with lazy expiry, the escalation/cascade engine, the  *)
(* tab-separated persistence format and the lookup functions.              *)
(*                                                                         *)
(* Strings are sequences of one-character strings, so that toId, the      *)
(* userid regex, split/join/trim and the prefix search of ipSearch are     *)
(* computed on characters as the code computes them.  A punishment is the  *)
(* array of the code: <<punishType, id, expireTime, reason...>>.  A Map is *)
(* a sequence of [k, v] records in insertion order.  Time is counted in    *)
(* hours.                                                                  *)
(***************************************************************************)
EXTENDS Integers, Sequences, FiniteSets, TLC

VARIABLES
  now,          \* Date.now()
  ips,          \* Punishments.ips
  userids,      \* Punishments.userids
  roomIps,      \* Punishments.roomIps
  roomUserids,  \* Punishments.roomUserids
  sharedIps,    \* Punishments.sharedIps (the set of its keys)
  users,        \* Users.users: the live sessions
  config,       \* Config.monitorminpunishments, Config.punishmentautolock,
                \* Config.dnsbl
  muteQueue,    \* room.muteQueue of every chat room, by room id
  connection,   \* a Connection given to checkIp, and the callbacks it waits for
  cfloods,      \* Punishments.cfloods: the connection flood table
  rangebans,    \* the ranges Punishments.checkRangeBanned was made from
  file,         \* config/punishments.tsv, as its rows
  roomFile,     \* config/room-punishments.tsv, as its rows
  lastOp,       \* what the last operation was given, found and returned
  history,      \* the operations done so far, in short
  steps         \* number of operations done

vars == <<now, ips, userids, roomIps, roomUserids, sharedIps, users, config, muteQueue,
          connection, cfloods, rangebans, file, roomFile, lastOp, history, steps>>

globalStores == <<ips, userids, file>>
roomStores == <<roomIps, roomUserids, roomFile>>

(***************************************************************************)
(* Bounds                                                                  *)
(***************************************************************************)
MaxTime == 2
MaxSteps == 3

(***************************************************************************)
(* Characters and strings                                                  *)
(***************************************************************************)
LowerChars == <<"a","b","c","d","e","f","g","h","i","j","k","l","m",
                "n","o","p","q","r","s","t","u","v","w","x","y","z">>
UpperChars == <<"A","B","C","D","E","F","G","H","I","J","K","L","M",
                "N","O","P","Q","R","S","T","U","V","W","X","Y","Z">>
DigitChars == <<"0","1","2","3","4","5","6","7","8","9">>

Range(s) == {s[i] : i \in DOMAIN s}

IndexOf(s, c) == IF c \in Range(s) THEN CHOOSE i \in DOMAIN s : s[i] = c ELSE 0

\* String.prototype.toLowerCase, one character
LowerChar(c) == IF c \in Range(UpperChars) THEN LowerChars[IndexOf(UpperChars, c)] ELSE c

IsAlnum(c) == c \in Range(LowerChars) \cup Range(DigitChars)

\* toId of a string: lower case, then every character outside [a-z0-9] removed
ToId(text) == SelectSeq([i \in DOMAIN text |-> LowerChar(text[i])], IsAlnum)

\* USERID_REGEX.test(key)
USERID_REGEX(key) == Len(key) > 0 /\ \A i \in DOMAIN key : IsAlnum(key[i])

\* String.prototype.startsWith
StartsWith(s, prefix) ==
  Len(s) >= Len(prefix) /\ SubSeq(s, 1, Len(prefix)) = prefix

\* String.prototype.lastIndexOf for one character, 0-based, -1 if absent
LastIndexOf(s, c) ==
  IF c \in Range(s) THEN (CHOOSE i \in DOMAIN s : s[i] = c /\ \A j \in DOMAIN s : j > i => s[j] # c) - 1
  ELSE -1

\* String.prototype.split for a one-character separator
RECURSIVE Split(_, _)
Split(s, sep) ==
  IF sep \notin Range(s) THEN <<s>>
  ELSE LET i == CHOOSE j \in DOMAIN s : s[j] = sep /\ \A h \in 1..(j - 1) : s[h] # sep
       IN <<SubSeq(s, 1, i - 1)>> \o Split(SubSeq(s, i + 1, Len(s)), sep)

\* Array.prototype.join for a one-character separator
RECURSIVE Join(_, _)
Join(list, sep) ==
  IF list = <<>> THEN <<>>
  ELSE IF Len(list) = 1 THEN list[1]
  ELSE list[1] \o <<sep>> \o Join(Tail(list), sep)

IsSpace(c) == c \in {" ", "\t", "\r", "\n"}

\* String.prototype.trim
RECURSIVE Trim(_)
Trim(s) ==
  IF s = <<>> THEN s
  ELSE IF IsSpace(s[1]) THEN Trim(Tail(s))
  ELSE IF IsSpace(s[Len(s)]) THEN Trim(SubSeq(s, 1, Len(s) - 1))
  ELSE s

(***************************************************************************)
(* Numbers as the file holds them                                          *)
(***************************************************************************)
Infinity == 1000000
NaN == -1

STR_Infinity == <<"I","n","f","i","n","i","t","y">>
STR_NaN == <<"N","a","N">>

\* a < b of JavaScript numbers: false as soon as one side is NaN
NumLt(a, b) == a # NaN /\ b # NaN /\ a < b

RECURSIVE DigitsOf(_)
DigitsOf(n) ==
  IF n < 10 THEN <<DigitChars[n + 1]>>
  ELSE DigitsOf(n \div 10) \o <<DigitChars[(n % 10) + 1]>>

\* String(n), as Array.prototype.join renders a number
NumToStr(n) ==
  IF n = NaN THEN STR_NaN
  ELSE IF n >= Infinity THEN STR_Infinity
  ELSE DigitsOf(n)

RECURSIVE DigitsValue(_)
DigitsValue(s) ==
  IF s = <<>> THEN 0
  ELSE DigitsValue(SubSeq(s, 1, Len(s) - 1)) * 10 + (IndexOf(DigitChars, s[Len(s)]) - 1)

\* Number(str): undefined (a missing column) and unparsable text give NaN,
\* the empty string gives 0
Number(s) ==
  IF s = <<"undefined">> THEN NaN
  ELSE LET t == Trim(s) IN
    IF t = <<>> THEN 0
    ELSE IF t = STR_Infinity THEN Infinity
    ELSE IF \A i \in DOMAIN t : t[i] \in Range(DigitChars) THEN DigitsValue(t)
    ELSE NaN

(***************************************************************************)
(* Map, PunishmentMap and NestedPunishmentMap                              *)
(***************************************************************************)
None == <<>>

MapKeys(m) == {m[i].k : i \in DOMAIN m}

MapHas(m, k) == k \in MapKeys(m)

\* Map.prototype.get; None stands for undefined
MapGet(m, k) == IF MapHas(m, k) THEN (CHOOSE e \in Range(m) : e.k = k).v ELSE None

\* Map.prototype.set: an existing key keeps its place, a new key goes last
MapSet(m, k, v) ==
  IF MapHas(m, k) THEN [i \in DOMAIN m |-> IF m[i].k = k THEN [k |-> k, v |-> v] ELSE m[i]]
  ELSE Append(m, [k |-> k, v |-> v])

MapDelete(m, k) == SelectSeq(m, LAMBDA e : e.k # k)

\* a comparison that lets the entry live through its expiry instant
UnexpiredInclusive(punishment, t) == punishment[3] # NaN /\ t <= punishment[3]

\* the test of get/forEach: Date.now() < punishment[2]
Unexpired(punishment, t) == NumLt(t, punishment[3])


\* PunishmentMap.get: a stale hit is deleted and undefined returned
PGet(m, k, t) ==
  LET punishment == MapGet(m, k) IN
  IF punishment # None
  THEN IF Unexpired(punishment, t)
       THEN [m |-> m, val |-> punishment]
       ELSE [m |-> MapDelete(m, k), val |-> None]
  ELSE [m |-> m, val |-> None]

\* PunishmentMap.has
PHas(m, k, t) == [m |-> PGet(m, k, t).m, val |-> PGet(m, k, t).val # None]

\* PunishmentMap.forEach with a callback that leaves the map alone: the
\* entries handed to the callback, in order; every other entry is deleted,
\* so the map that is left holds exactly the entries handed over
PForEach(m, t) == SelectSeq(m, LAMBDA e : Unexpired(e.v, t))

\* NestedPunishmentMap.nestedSet
NestedSet(M, k1, k2, value) ==
  LET M1 == IF ~MapHas(M, k1) THEN MapSet(M, k1, <<>>) ELSE M
  IN MapSet(M1, k1, MapSet(MapGet(M1, k1), k2, value))

\* NestedPunishmentMap.nestedDelete
NestedDelete(M, k1, k2) ==
  IF ~MapHas(M, k1) THEN M
  ELSE LET subMap == MapDelete(MapGet(M, k1), k2)
       IN IF Len(subMap) = 0 THEN MapDelete(M, k1) ELSE MapSet(M, k1, subMap)

\* NestedPunishmentMap.nestedGet
NestedGet(M, k1, k2, t) ==
  IF ~MapHas(M, k1) THEN [m |-> M, val |-> None]
  ELSE LET punishment == MapGet(MapGet(M, k1), k2) IN
       IF punishment # None
       THEN IF Unexpired(punishment, t)
            THEN [m |-> M, val |-> punishment]
            ELSE [m |-> NestedDelete(M, k1, k2), val |-> None]
       ELSE [m |-> M, val |-> None]

\* NestedPunishmentMap.nestedHas
NestedHas(M, k1, k2, t) ==
  [m |-> NestedGet(M, k1, k2, t).m, val |-> NestedGet(M, k1, k2, t).val # None]

\* NestedPunishmentMap.nestedForEach, the map it leaves: stale entries are
\* deleted, and a sub-map emptied by that is deleted with them
NestedForEachMap(M, t) ==
  LET swept == [i \in DOMAIN M |->
                  [k |-> M[i].k, v |-> PForEach(M[i].v, t), was |-> Len(M[i].v)]]
      kept == SelectSeq(swept, LAMBDA e : ~(Len(e.v) = 0 /\ e.was > 0))
  IN [i \in DOMAIN kept |-> [k |-> kept[i].k, v |-> kept[i].v]]

\* NestedPunishmentMap.nestedForEach, the (punishment, k1, k2) triples handed
\* to the callback, in order
RECURSIVE NestedForEachSeen(_, _)
NestedForEachSeen(M, t) ==
  IF M = <<>> THEN <<>>
  ELSE LET live == PForEach(M[1].v, t)
       IN [i \in DOMAIN live |-> [k1 |-> M[1].k, k2 |-> live[i].k, v |-> live[i].v]]
          \o NestedForEachSeen(Tail(M), t)

(***************************************************************************)
(* Names                                                                   *)
(***************************************************************************)
LOCK == <<"L","O","C","K">>
NAMELOCK == <<"N","A","M","E","L","O","C","K">>
BAN == <<"B","A","N">>
ROOMBAN == <<"R","O","O","M","B","A","N">>
BLACKLIST == <<"B","L","A","C","K","L","I","S","T">>
MUTE == <<"M","U","T","E">>

ID_al == <<"a","l">>
ID_bo == <<"b","o">>
ID_cy == <<"c","y">>
ID_guest1 == <<"g","u","e","s","t","1">>
IP_1111 == <<"1",".","1",".","1",".","1">>
IP_1121 == <<"1",".","1",".","2",".","1">>
IP_1112 == <<"1",".","1",".","1",".","2">>
ROOM_lobby == <<"l","o","b","b","y">>
ROOM_help == <<"h","e","l","p">>
ROOM_sub == <<"s","u","b">>
ROOM_tours == <<"t","o","u","r","s">>
ROOM_staff == <<"s","t","a","f","f">>
ROOM_battle == <<"b","a","t","t","l","e","1">>

(***************************************************************************)
(* Persistence                                                             *)
(***************************************************************************)
Undefined == <<"undefined">>

STR_Punishment == <<"P","u","n","i","s","h","m","e","n","t">>

\* 'Punishment\tUser ID\tIPs and alts\tExpires\r\n'
PUNISHMENT_HEADER ==
  STR_Punishment \o <<"\t","U","s","e","r"," ","I","D","\t">>
  \o <<"I","P","s"," ","a","n","d"," ","a","l","t","s","\t">>
  \o <<"E","x","p","i","r","e","s","\r","\n">>

\* the columns that row.join('\t') writes for [expireTime, ...reason]
RenderRest(rest) == [i \in DOMAIN rest |-> IF i = 1 THEN NumToStr(rest[1]) ELSE rest[i]]

\* Punishments.renderEntry
RenderEntry(entry, id) ==
  Join(<<entry.punishType, id, Join(entry.keys, ",")>> \o RenderRest(entry.rest), "\t")
  \o <<"\r","\n">>

AppendPunishmentAlways(text, entry, id) == text \o RenderEntry(entry, id)

\* Punishments.appendPunishment: the text of the file after the call
AppendPunishment(text, entry, id) ==
  IF Len(id) > 0 /\ id[1] = "#" THEN text ELSE text \o RenderEntry(entry, id)

\* the destructuring [punishType, id, altKeys, expireTimeStr, ...rest]
Column(cols, i) == IF i <= Len(cols) THEN cols[i] ELSE Undefined

RestColumns(cols) == IF Len(cols) > 4 THEN SubSeq(cols, 5, Len(cols)) ELSE <<>>

RECURSIVE LoadKeys(_, _, _)
\* the loop over keys of loadPunishments: [ips, userids] after it
LoadKeys(st, keys, punishment) ==
  IF keys = <<>> THEN st
  ELSE LoadKeys(
         IF ~USERID_REGEX(keys[1])
         THEN [st EXCEPT !.ips = MapSet(st.ips, keys[1], punishment)]
         ELSE [st EXCEPT !.userids = MapSet(st.userids, keys[1], punishment)],
         Tail(keys), punishment)

RECURSIVE LoadRows(_, _, _)
\* the loop over rows of loadPunishments; threw: altKeys.split on a row
\* that has no third column raises a TypeError, which ends the load
LoadRows(st, rows, t) ==
  IF rows = <<>> \/ st.threw THEN st
  ELSE LET row == rows[1]
           cols == Split(Trim(row), "\t")
           punishType == Column(cols, 1)
           id == Column(cols, 2)
           altKeys == Column(cols, 3)
           expireTime == Number(Column(cols, 4))
           punishment == <<punishType, id, expireTime>> \o RestColumns(cols)
       IN IF row = <<>> \/ row = <<"\r">> THEN LoadRows(st, Tail(rows), t)
          ELSE IF punishType = STR_Punishment THEN LoadRows(st, Tail(rows), t)
          ELSE IF altKeys = Undefined THEN [st EXCEPT !.threw = TRUE]
          ELSE IF expireTime # NaN /\ t >= expireTime THEN LoadRows(st, Tail(rows), t)
          ELSE LoadRows(LoadKeys(st, Split(altKeys, ",") \o <<id>>, punishment), Tail(rows), t)

\* Punishments.loadPunishments on the text of the file
LoadPunishments(st, data, t) ==
  IF data = <<>> THEN st ELSE LoadRows(st, Split(data, "\n"), t)

RECURSIVE LoadRoomKeys(_, _, _, _)
\* the loop over keys of loadRoomPunishments
LoadRoomKeys(st, roomid, keys, punishment) ==
  IF keys = <<>> THEN st
  ELSE LoadRoomKeys(
         IF ~USERID_REGEX(keys[1])
         THEN [st EXCEPT !.ips = NestedSet(st.ips, roomid, keys[1], punishment)]
         ELSE [st EXCEPT !.userids = NestedSet(st.userids, roomid, keys[1], punishment)],
         roomid, Tail(keys), punishment)

RECURSIVE LoadRoomRows(_, _, _)
\* the loop over rows of loadRoomPunishments on [ips, userids, threw], the
\* two room stores; threw: id.split or altKeys.split on a missing column
LoadRoomRows(st, rows, t) ==
  IF rows = <<>> \/ st.threw THEN st
  ELSE LET row == rows[1]
           cols == Split(Trim(row), "\t")
           punishType == Column(cols, 1)
           id == Column(cols, 2)
           altKeys == Column(cols, 3)
           expireTime == Number(Column(cols, 4))
           parts == Split(id, ":")
           roomid == parts[1]
           userid == IF Len(parts) >= 2 THEN parts[2] ELSE <<>>
           punishment == <<punishType, userid, expireTime>> \o RestColumns(cols)
       IN IF row = <<>> \/ row = <<"\r">> THEN LoadRoomRows(st, Tail(rows), t)
          ELSE IF punishType = STR_Punishment THEN LoadRoomRows(st, Tail(rows), t)
          ELSE IF id = Undefined THEN [st EXCEPT !.threw = TRUE]
          ELSE IF userid = <<>> THEN LoadRoomRows(st, Tail(rows), t)
          ELSE IF altKeys = Undefined THEN [st EXCEPT !.threw = TRUE]
          ELSE IF expireTime # NaN /\ t >= expireTime THEN LoadRoomRows(st, Tail(rows), t)
          ELSE LoadRoomRows(LoadRoomKeys(st, roomid, Split(altKeys, ",") \o <<userid>>, punishment),
                            Tail(rows), t)

\* Punishments.loadRoomPunishments on the text of the file
LoadRoomPunishments(st, data, t) ==
  IF data = <<>> THEN st ELSE LoadRoomRows(st, Split(data, "\n"), t)

RECURSIVE SaveTableIps(_, _)
\* first loop of savePunishments, over the live entries of Punishments.ips
SaveTableIps(saveTable, entries) ==
  IF entries = <<>> THEN saveTable
  ELSE LET punishment == entries[1].v
           ip == entries[1].k
           id == punishment[2]
           entry == MapGet(saveTable, id)
       IN IF Len(id) > 0 /\ id[1] = "#" THEN SaveTableIps(saveTable, Tail(entries))
          ELSE IF MapHas(saveTable, id)
          THEN SaveTableIps(MapSet(saveTable, id, [entry EXCEPT !.keys = Append(@, ip)]),
                            Tail(entries))
          ELSE SaveTableIps(
                 MapSet(saveTable, id, [keys |-> <<ip>>, punishType |-> punishment[1],
                                        rest |-> SubSeq(punishment, 3, Len(punishment))]),
                 Tail(entries))

RECURSIVE SaveTableUserids(_, _)
\* second loop of savePunishments, over the live entries of Punishments.userids
SaveTableUserids(saveTable, entries) ==
  IF entries = <<>> THEN saveTable
  ELSE LET punishment == entries[1].v
           userid == entries[1].k
           id == punishment[2]
           table1 == IF MapHas(saveTable, id) THEN saveTable
                     ELSE MapSet(saveTable, id, [keys |-> <<>>, punishType |-> punishment[1],
                                                 rest |-> SubSeq(punishment, 3, Len(punishment))])
           entry == MapGet(table1, id)
       IN IF Len(id) > 0 /\ id[1] = "#" THEN SaveTableUserids(saveTable, Tail(entries))
          ELSE IF userid # id
          THEN SaveTableUserids(MapSet(table1, id, [entry EXCEPT !.keys = Append(@, userid)]),
                                Tail(entries))
          ELSE SaveTableUserids(table1, Tail(entries))

RECURSIVE RenderTable(_)
RenderTable(saveTable) ==
  IF saveTable = <<>> THEN <<>>
  ELSE RenderEntry(saveTable[1].v, saveTable[1].k) \o RenderTable(Tail(saveTable))

\* Punishments.savePunishments: the text written; both forEach loops leave
\* the stores without their stale entries
SavePunishments(ipMap, useridMap, t) ==
  PUNISHMENT_HEADER
  \o RenderTable(SaveTableUserids(SaveTableIps(<<>>, PForEach(ipMap, t)), PForEach(useridMap, t)))

(***************************************************************************)
(* Identity provider (Users): a session is a record                         *)
(*   [name, userid, named, prevId, ips, autoconfirmed, trusted, locked,    *)
(*    namelocked, connected]                                               *)
(* where <<>> stands for a false or missing value                          *)
(***************************************************************************)
\* user.getLastId(): the userid of a named session, else the userid it had
\* last, else its guest userid
GetLastId(user) ==
  IF user.named THEN user.userid
  ELSE IF user.prevId # <<>> THEN user.prevId
  ELSE user.userid

\* Users(id): the position of the session with that userid, else of the
\* session that had it before its name was reset (prevUsers), 0 if there is none
UsersGet(id) ==
  IF \E i \in DOMAIN users : users[i].userid = id
  THEN CHOOSE i \in DOMAIN users : users[i].userid = id
  ELSE IF \E i \in DOMAIN users : ~users[i].named /\ users[i].prevId = id
  THEN CHOOSE i \in DOMAIN users : ~users[i].named /\ users[i].prevId = id
  ELSE 0

Intersects(seqA, setB) == \E i \in DOMAIN seqA : seqA[i] \in setB

RECURSIVE FindUsersFrom(_, _, _)
\* Users.findUsers(userids, ips, {includeTrusted: false, forPunishment: true}):
\* the positions of the sessions with one of the userids or addresses,
\* trusted sessions left out, shared addresses not counted
FindUsersFrom(i, idSet, ipSet) ==
  IF i > Len(users) THEN <<>>
  ELSE IF users[i].trusted = <<>>
          /\ (users[i].userid \in idSet \/ Intersects(users[i].ips, ipSet \ sharedIps))
       THEN <<i>> \o FindUsersFrom(i + 1, idSet, ipSet)
       ELSE FindUsersFrom(i + 1, idSet, ipSet)

FindUsers(idSet, ipSet) == FindUsersFrom(1, idSet, ipSet)

\* user.getAltUsers(PUNISH_TRUSTED, true)
GetAltUsers(user) == FindUsers({GetLastId(user)}, Range(user.ips))

(***************************************************************************)
(* Adding and removing                                                     *)
(***************************************************************************)
\* types.indexOf(punishType) for types = ['LOCK', 'NAMELOCK', 'BAN']
TypeIndex(punishType) ==
  IF punishType = LOCK THEN 0
  ELSE IF punishType = NAMELOCK THEN 1
  ELSE IF punishType = BAN THEN 2
  ELSE -1

NumGt(a, b) == NumLt(b, a)

\* lines 391-402 of punish: the punishment after the two in-place updates
Escalate(existingPunishment, punishment) ==
  LET p1 == IF NumGt(existingPunishment[3], punishment[3])
            THEN [punishment EXCEPT ![3] = existingPunishment[3]]
            ELSE punishment
  IN IF TypeIndex(existingPunishment[1]) > TypeIndex(p1[1])
     THEN [p1 EXCEPT ![1] = existingPunishment[1]]
     ELSE p1

\* Set.prototype.add on a Set kept in insertion order
SetAdd(list, x) == IF x \in Range(list) THEN list ELSE Append(list, x)

\* Set.prototype.delete
SetDelete(list, x) == SelectSeq(list, LAMBDA y : y # x)

\* stores of copies: an in-place update of the array reaches no key
SharedNot(m, written, punishment) == m

\* the punishment array is one object: an in-place update shows under every
\* key that already holds it
Shared(m, written, punishment) ==
  [i \in DOMAIN m |-> IF m[i].k \in written THEN [k |-> m[i].k, v |-> punishment] ELSE m[i]]

\* lines 390-402 of punish, on the cascade state
\*   [ips, userids, punishment, keys, wIps, wUserids]
\* (wIps, wUserids: the keys that hold the array of this call)
PunishEscalate(st, user, t) ==
  LET k == ToId(user.name)
      got == PGet(st.userids, k, t)
      wUserids == IF MapHas(got.m, k) THEN st.wUserids ELSE st.wUserids \ {k}
      punishment == IF got.val # None THEN Escalate(got.val, st.punishment) ELSE st.punishment
  IN [st EXCEPT !.punishment = punishment,
                !.ips = Shared(st.ips, st.wIps, punishment),
                !.userids = Shared(got.m, wUserids, punishment),
                !.wUserids = wUserids]

IsGuestIdNever(id) == FALSE

\* lastUserId.startsWith('guest')
IsGuestId(id) == StartsWith(id, <<"g","u","e","s","t">>)

RECURSIVE PunishIps(_, _)
\* lines 414-417 of punish
PunishIps(st, ipList) ==
  IF ipList = <<>> THEN st
  ELSE PunishIps([st EXCEPT !.ips = MapSet(st.ips, ipList[1], st.punishment),
                            !.keys = SetAdd(st.keys, ipList[1]),
                            !.wIps = st.wIps \cup {ipList[1]}],
                 Tail(ipList))

\* lines 418-421 of punish
PunishLastId(st, user) ==
  LET lastUserId == GetLastId(user)
  IN IF ~IsGuestId(lastUserId)
     THEN [st EXCEPT !.userids = MapSet(st.userids, lastUserId, st.punishment),
                     !.wUserids = st.wUserids \cup {lastUserId}]
     ELSE st

\* lines 422-425 of punish
PunishAutoconfirmed(st, user) ==
  IF user.autoconfirmed # <<>>
  THEN [st EXCEPT !.userids = MapSet(st.userids, user.autoconfirmed, st.punishment),
                  !.keys = SetAdd(st.keys, user.autoconfirmed),
                  !.wUserids = st.wUserids \cup {user.autoconfirmed}]
  ELSE st

\* lines 426-430 of punish
PunishTrusted(st, user) ==
  IF user.trusted # <<>>
  THEN [st EXCEPT !.userids = MapSet(st.userids, user.trusted, st.punishment),
                  !.keys = SetAdd(st.keys, user.trusted),
                  !.wUserids = st.wUserids \cup {user.trusted}]
  ELSE st

\* lines 414-430 of punish
PunishKeys(st, user) ==
  PunishTrusted(PunishAutoconfirmed(PunishLastId(PunishIps(st, user.ips), user), user), user)

\* punish has been entered: calls lists the invocations of one cascade, each
\* with its session and whether it was given recursionKeys
PunishEntered(st, user, recursionKeys) ==
  [st EXCEPT !.calls = Append(@, [userid |-> user.userid, recursion |-> recursionKeys])]

RECURSIVE PunishCall(_, _, _, _)
\* a loop over the affected sessions that stops after the first of them
PunishAltsFirst(st, affected, t) ==
  IF affected = <<>> THEN st ELSE PunishCall(st, users[affected[1]], TRUE, t)

RECURSIVE PunishAlts(_, _, _)
\* the loop of lines 409-411: this.punish(curUser, punishment, keys) for
\* each session of affected
PunishAlts(st, affected, t) ==
  IF affected = <<>> THEN st
  ELSE PunishAlts(PunishCall(st, users[affected[1]], TRUE, t), Tail(affected), t)

\* lines 390-430 of one invocation punish(user, punishment, recursionKeys):
\* only an invocation without recursionKeys goes through the sessions of
\* getAltUsers
PunishCall(st, user, recursionKeys, t) ==
  PunishKeys(
    IF ~recursionKeys
    THEN PunishAlts(PunishEscalate(PunishEntered(st, user, recursionKeys), user, t),
                    GetAltUsers(user), t)
    ELSE PunishEscalate(PunishEntered(st, user, recursionKeys), user, t),
    user)

\* lines 431-440 of punish, on the cascade state the writes have left
PunishDone(st, text, user, affected) ==
  LET id == st.punishment[2]
      keys == SetDelete(st.keys, id)
  IN [ips |-> st.ips, userids |-> st.userids,
      file |-> AppendPunishment(text, [keys |-> keys, punishType |-> st.punishment[1],
                                       rest |-> SubSeq(st.punishment, 3, Len(st.punishment))],
                                id),
      punishment |-> st.punishment,
      keys |-> keys,
      calls |-> st.calls, wIps |-> st.wIps, wUserids |-> st.wUserids,
      affected |-> IF user.trusted # <<>> THEN <<UsersGet(user.userid)>> \o affected ELSE affected]

\* Punishments.punish(user, punishment) (top-level call): the stores, the
\* file, the final punishment and the affected sessions
Punish(ipMap, useridMap, text, user, punishment, t) ==
  PunishDone(
    PunishCall([ips |-> ipMap, userids |-> useridMap, punishment |-> punishment,
                keys |-> <<>>, wIps |-> {}, wUserids |-> {}, calls |-> <<>>],
               user, FALSE, t),
    text, user, GetAltUsers(user))

(***************************************************************************)
(* Checking: search and ipSearch                                           *)
(***************************************************************************)
RECURSIVE SearchGlobal(_, _, _)
\* one forEach loop of search over a global store: [keys, rest] after it
SearchGlobal(found, entries, searchId) ==
  IF entries = <<>> THEN found
  ELSE LET punishment == entries[1].v IN
       SearchGlobal(
         IF searchId = punishment[2] \/ searchId = entries[1].k
         THEN [keys |-> Append(found.keys, entries[1].k),
               rest |-> SubSeq(punishment, 3, Len(punishment))]
         ELSE found,
         Tail(entries), searchId)

RECURSIVE SearchRoom(_, _, _)
\* one nestedForEach loop of search over a room store
SearchRoom(found, seen, searchId) ==
  IF seen = <<>> THEN found
  ELSE LET punishment == seen[1].v IN
       SearchRoom(
         IF searchId = punishment[2] \/ searchId = seen[1].k2
         THEN [keys |-> Append(found.keys, seen[1].k2 \o <<":">> \o seen[1].k1),
               rest |-> SubSeq(punishment, 3, Len(punishment))]
         ELSE found,
         Tail(seen), searchId)

\* Punishments.search: [foundKeys, foundRest] (rest <<>> stands for null);
\* the four loops leave the four stores without their stale entries
Search(ipMap, useridMap, roomIpMap, roomUseridMap, searchId, t) ==
  SearchRoom(
    SearchRoom(
      SearchGlobal(
        SearchGlobal([keys |-> <<>>, rest |-> <<>>], PForEach(ipMap, t), searchId),
        PForEach(useridMap, t), searchId),
      NestedForEachSeen(roomIpMap, t), searchId),
    NestedForEachSeen(roomUseridMap, t), searchId)

IpSearchNoLoop(m, ip, dotIndex, i, t) == [m |-> m, val |-> None]

RECURSIVE IpSearchLoop(_, _, _, _, _)
\* the loop of ipSearch (lines 1049-1054)
IpSearchLoop(m, ip, dotIndex, i, t) ==
  IF i < 4 /\ dotIndex > 0
  THEN LET prefix == SubSeq(ip, 1, dotIndex)
           got == PGet(m, prefix \o <<".","*">>, t)
       IN IF got.val # None THEN got
          ELSE IpSearchLoop(got.m, prefix, LastIndexOf(prefix, "."), i + 1, t)
  ELSE [m |-> m, val |-> None]

\* Punishments.ipSearch: the punishment found (None for undefined) and the
\* store as the probes leave it
IpSearch(m, ip, t) ==
  LET got == PGet(m, ip, t)
  IN IF got.val # None THEN got
     ELSE IpSearchLoop(got.m, ip, LastIndexOf(ip, "."), 0, t)

(***************************************************************************)
(* punishName, unpunish, the range punishments and the ban list            *)
(***************************************************************************)
RANGELOCK_DURATION == 1
LOCK_DURATION == 48
BAN_DURATION == 7 * 24

STR_rangelock == <<"#","r","a","n","g","e","l","o","c","k">>
STR_ipban == <<"#","i","p","b","a","n">>

RECURSIVE MapSetAll(_, _, _)
MapSetAll(m, keyList, value) ==
  IF keyList = <<>> THEN m
  ELSE MapSetAll(MapSet(m, keyList[1], value), Tail(keyList), value)

RECURSIVE SetAddAll(_, _)
SetAddAll(list, xs) == IF xs = <<>> THEN list ELSE SetAddAll(SetAdd(list, xs[1]), Tail(xs))

\* search(userid)[0].map(key => key.split(':')[0])
FoundKeys(found) == [i \in DOMAIN found |-> Split(found[i], ":")[1]]

\* the Set userids of punishName and roomPunishName, in insertion order
FoundUserids(userid, foundKeys) ==
  SetAddAll(<<userid>>, SelectSeq(foundKeys, LAMBDA key : "." \notin Range(key)))

\* the Set ips of punishName and roomPunishName
FoundIps(foundKeys) == SetAddAll(<<>>, SelectSeq(foundKeys, LAMBDA key : "." \in Range(key)))

\* lines 455-469 of punishName, with the two Sets filled
PunishNameKeys(ipMap, useridMap, roomIpMap, roomUseridMap, text, punishment, t, useridList, ipList) ==
  [ips |-> MapSetAll(PForEach(ipMap, t), ipList, punishment),
   userids |-> MapSetAll(PForEach(useridMap, t), useridList, punishment),
   roomIps |-> NestedForEachMap(roomIpMap, t),
   roomUserids |-> NestedForEachMap(roomUseridMap, t),
   file |-> AppendPunishment(text, [keys |-> SetDelete(useridList, punishment[2]) \o ipList,
                                    punishType |-> punishment[1],
                                    rest |-> SubSeq(punishment, 3, Len(punishment))],
                             punishment[2]),
   punishment |-> punishment,
   affected |-> FindUsers(Range(useridList), Range(ipList))]

\* lines 444-454 of punishName, on the keys search has found
PunishNameFound(ipMap, useridMap, roomIpMap, roomUseridMap, text, userid, punishment, t, foundKeys) ==
  PunishNameKeys(ipMap, useridMap, roomIpMap, roomUseridMap, text, punishment, t,
                 FoundUserids(userid, foundKeys), FoundIps(foundKeys))

\* Punishments.punishName
PunishName(ipMap, useridMap, roomIpMap, roomUseridMap, text, userid, punishment, t) ==
  PunishNameFound(ipMap, useridMap, roomIpMap, roomUseridMap, text, userid, punishment, t,
                  FoundKeys(Search(ipMap, useridMap, roomIpMap, roomUseridMap, userid, t).keys))

UnpunishMatchAnyKind(punishment, id, punishType) == punishment[2] = id

\* the test of both loops of unpunish
UnpunishMatch(punishment, id, punishType) == punishment[2] = id /\ punishment[1] = punishType

\* Punishments.unpunish: the stores, the file and the value returned
\* (success FALSE for false, else id is returned)
Unpunish(ipMap, useridMap, text, idArg, punishType, t) ==
  LET got == PGet(useridMap, ToId(idArg), t)
      id == IF got.val # None THEN got.val[2] ELSE ToId(idArg)
      liveIps == PForEach(ipMap, t)
      liveUserids == PForEach(got.m, t)
      hit(e) == UnpunishMatch(e.v, id, punishType)
      ips1 == SelectSeq(liveIps, LAMBDA e : ~hit(e))
      userids1 == SelectSeq(liveUserids, LAMBDA e : ~hit(e))
      \* success = id: the empty id is as good as false
      success == id # <<>> /\ (ips1 # liveIps \/ userids1 # liveUserids)
  IN [ips |-> ips1, userids |-> userids1,
      file |-> IF success THEN SavePunishments(ips1, userids1, t) ELSE text,
      success |-> success, id |-> id]

\* Punishments.lockRange / Punishments.banRange
RangePunish(ipMap, punishType, range, reason, t) ==
  MapSet(ipMap, range, <<punishType, STR_rangelock, t + RANGELOCK_DURATION, reason>>)

RECURSIVE LoadBanlistRows(_, _, _)
\* the loop of loadBanlist over the rows of config/ipbans.txt
LoadBanlistRows(m, rows, t) ==
  IF rows = <<>> THEN m
  ELSE LET ip == Trim(Split(rows[1], "#")[1])
           has == PHas(m, ip, t)
       IN IF ip = <<>> \/ "/" \in Range(ip) THEN LoadBanlistRows(m, Tail(rows), t)
          ELSE IF ~has.val
          THEN LoadBanlistRows(MapSet(has.m, ip, <<BAN, STR_ipban, Infinity>>), Tail(rows), t)
          ELSE LoadBanlistRows(has.m, Tail(rows), t)

RECURSIVE LoadBanlistRanges(_)
\* the rows of config/ipbans.txt that loadBanlist pushes to rangebans
LoadBanlistRanges(rows) ==
  IF rows = <<>> THEN <<>>
  ELSE IF "/" \in Range(Trim(Split(rows[1], "#")[1]))
       THEN <<Trim(Split(rows[1], "#")[1])>> \o LoadBanlistRanges(Tail(rows))
       ELSE LoadBanlistRanges(Tail(rows))

\* the list line 335 gives Dnsbl.checker; without data the checker stays
Rangebans(old, data) == IF data = <<>> THEN old ELSE LoadBanlistRanges(Split(data, "\n"))

\* Punishments.loadBanlist on the text of config/ipbans.txt
LoadBanlist(m, data, t) == IF data = <<>> THEN m ELSE LoadBanlistRows(m, Split(data, "\n"), t)

(***************************************************************************)
(* Rooms: the chat rooms (Rooms.global.chatRooms, in order) and what the   *)
(* room punishments do.  The operators work on a record of everything a    *)
(* call may change:                                                        *)
(*   [ips, userids, roomIps, roomUserids, file, roomFile, users, log]      *)
(* where log lists what was sent to Monitor.log                            *)
(***************************************************************************)
ROOMBAN_DURATION == 48
BLACKLIST_DURATION == 365 * 24
AUTOLOCK_POINT_THRESHOLD == 8

NoRoom == [id |-> <<>>, parent |-> <<>>, isPrivate |-> FALSE, isPersonal |-> FALSE,
           battle |-> FALSE]

\* lobby > help > sub are nested, sub being a personal room; tours is
\* public; staff is private; battle1 is a battle
ChatRooms ==
  << [NoRoom EXCEPT !.id = ROOM_lobby],
     [NoRoom EXCEPT !.id = ROOM_help, !.parent = ROOM_lobby],
     [NoRoom EXCEPT !.id = ROOM_sub, !.parent = ROOM_help, !.isPersonal = TRUE],
     [NoRoom EXCEPT !.id = ROOM_tours],
     [NoRoom EXCEPT !.id = ROOM_staff, !.isPrivate = TRUE],
     [NoRoom EXCEPT !.id = ROOM_battle, !.battle = TRUE] >>

\* Rooms(roomid)
Rooms(roomid) == CHOOSE room \in Range(ChatRooms) : room.id = roomid

\* the ids of room.subRooms
SubRooms(roomid) == {room.id : room \in {r \in Range(ChatRooms) : r.parent = roomid}}

PunishmentPointsFlat(punishType) == 2

\* PUNISHMENT_POINT_VALUES[punishType], 0 for a kind that is not in it
PunishmentPoints(punishType) ==
  IF punishType = MUTE THEN 2
  ELSE IF punishType = BLACKLIST THEN 3
  ELSE IF punishType = ROOMBAN THEN 4
  ELSE 0

\* one call of roomPunish without its recursion, on [roomIps, roomUserids, keys]
RECURSIVE RoomPunishIps(_, _, _, _)
RoomPunishIps(st, roomid, ipList, punishment) ==
  IF ipList = <<>> THEN st
  ELSE RoomPunishIps([st EXCEPT !.roomIps = NestedSet(st.roomIps, roomid, ipList[1], punishment),
                                !.keys = SetAdd(st.keys, ipList[1])],
                     roomid, Tail(ipList), punishment)

\* lines 525-527 of roomPunish
RoomPunishUserid(st, roomid, user, punishment) ==
  IF ~IsGuestId(user.userid)
  THEN [st EXCEPT !.roomUserids = NestedSet(st.roomUserids, roomid, user.userid, punishment)]
  ELSE st

\* lines 528-531 of roomPunish
RoomPunishAutoconfirmed(st, roomid, user, punishment) ==
  IF user.autoconfirmed # <<>>
  THEN [st EXCEPT !.roomUserids = NestedSet(st.roomUserids, roomid, user.autoconfirmed, punishment),
                  !.keys = SetAdd(st.keys, user.autoconfirmed)]
  ELSE st

\* lines 532-536 of roomPunish
RoomPunishTrusted(st, roomid, user, punishment) ==
  IF user.trusted # <<>>
  THEN [st EXCEPT !.roomUserids = NestedSet(st.roomUserids, roomid, user.trusted, punishment),
                  !.keys = SetAdd(st.keys, user.trusted)]
  ELSE st

\* lines 521-536 of roomPunish
RoomPunishKeys(st, roomid, user, punishment) ==
  RoomPunishTrusted(
    RoomPunishAutoconfirmed(
      RoomPunishUserid(RoomPunishIps(st, roomid, user.ips, punishment), roomid, user, punishment),
      roomid, user, punishment),
    roomid, user, punishment)

RECURSIVE RoomPunishCall(_, _, _, _, _, _)
RECURSIVE RoomPunishAlts(_, _, _, _, _)
\* the loop of lines 514-517: this.roomPunish(room, curUser, punishment, keys)
\* for each session of affected
RoomPunishAlts(st, roomid, sessions, affected, punishment) ==
  IF affected = <<>> THEN st
  ELSE RoomPunishAlts(RoomPunishCall(st, roomid, sessions, sessions[affected[1]], punishment, TRUE),
                      roomid, sessions, Tail(affected), punishment)

\* lines 511-536 of one invocation roomPunish(room, user, punishment,
\* recursionKeys): only an invocation without recursionKeys goes through the
\* sessions of getAltUsers
RoomPunishCall(st, roomid, sessions, user, punishment, recursionKeys) ==
  RoomPunishKeys(
    IF ~recursionKeys
    THEN RoomPunishAlts(PunishEntered(st, user, recursionKeys), roomid, sessions,
                        GetAltUsers(user), punishment)
    ELSE PunishEntered(st, user, recursionKeys),
    roomid, user, punishment)

RECURSIVE GetRoomPunishmentsIps(_, _, _, _)
\* the loop of getRoomPunishments over user.ips (options.checkIps)
GetRoomPunishmentsIps(st, roomid, ipList, t) ==
  IF ipList = <<>> THEN st
  ELSE LET g == NestedGet(st.roomIps, roomid, ipList[1], t)
       IN GetRoomPunishmentsIps(
            [st EXCEPT !.roomIps = g.m,
                       !.list = IF g.val # None
                                THEN Append(@, [room |-> roomid, punishment |-> g.val])
                                ELSE @],
            roomid, Tail(ipList), t)

\* Punishments.getRoomPunishments(user, options): who is [session, id], the
\* position of the session (0 for a string) and toId(user); the result is
\* the list of [room, punishment] and the room stores after the lookups
RECURSIVE GetRoomPunishmentsFrom(_, _, _, _, _, _, _)
GetRoomPunishmentsFrom(st, rooms, sessions, queues, who, options, t) ==
  IF rooms = <<>> THEN st
  ELSE LET curRoom == rooms[1]
           got == NestedGet(st.roomUserids, curRoom.id, who.id, t)
           user == sessions[who.session]
           st1 == [st EXCEPT !.roomUserids = got.m]
           st2 == IF options.checkIps /\ who.session # 0 THEN GetRoomPunishmentsIps(st1, curRoom.id, user.ips, t) ELSE st1
           queue == MapGet(queues, curRoom.id)
           hit(entry) == \/ who.id = entry.userid
                         \/ user.guestNum = entry.guestNum
                         \/ user.autoconfirmed # <<>> /\ user.autoconfirmed = entry.autoconfirmed
           mutes == SelectSeq(queue, hit)
           st3 == IF who.session # 0 /\ queue # None
                  THEN [st2 EXCEPT !.list = @ \o [i \in DOMAIN mutes |->
                          [room |-> curRoom.id,
                           punishment |-> <<MUTE, mutes[i].userid, mutes[i].time>>]]]
                  ELSE st2
       IN IF curRoom.isPrivate \/ (options.publicOnly /\ (curRoom.isPersonal \/ curRoom.battle))
          THEN GetRoomPunishmentsFrom(st, Tail(rooms), sessions, queues, who, options, t)
          ELSE IF got.val # None
          THEN GetRoomPunishmentsFrom(
                 [st1 EXCEPT !.list = Append(@, [room |-> curRoom.id, punishment |-> got.val])],
                 Tail(rooms), sessions, queues, who, options, t)
          ELSE GetRoomPunishmentsFrom(st3, Tail(rooms), sessions, queues, who, options, t)

GetRoomPunishments(roomIpMap, roomUseridMap, sessions, queues, who, options, t) ==
  GetRoomPunishmentsFrom([roomIps |-> roomIpMap, roomUserids |-> roomUseridMap, list |-> <<>>],
                         ChatRooms, sessions, queues, who, options, t)

RECURSIVE SumPoints(_)
SumPoints(list) ==
  IF list = <<>> THEN 0 ELSE PunishmentPoints(list[1].punishment[1]) + SumPoints(Tail(list))

STR_Autolock == <<"A","u","t","o","l","o","c","k">>

\* a Config.monitorminpunishments that is not of type number
NoNumber == -2

\* the sessions of `affected` get locked = id
LockSessions(sessions, affected, id) ==
  [i \in DOMAIN sessions |->
     IF i \in Range(affected) THEN [sessions[i] EXCEPT !.locked = id] ELSE sessions[i]]

\* what the lock of autolock leaves: r is what punish (bySession) or
\* punishName has returned
Autolocked(w, id, bySession, r) ==
  [w EXCEPT !.ips = r.ips, !.userids = r.userids, !.file = r.file,
            !.roomIps = IF bySession THEN @ ELSE r.roomIps,
            !.roomUserids = IF bySession THEN @ ELSE r.roomUserids,
            !.users = LockSessions(@, r.affected, id),
            !.log = Append(@, "autolock")]

\* Punishments.autolock(user, 'staff', 'PunishmentMonitor', reason, message):
\* lock(user, null, toId(user), reason), then the two log lines
Autolock(w, who, t) ==
  LET punishment == <<LOCK, who.id, t + LOCK_DURATION, STR_Autolock>>
      session == IF who.session # 0 THEN who.session ELSE UsersGet(who.id)
  IN Autolocked(w, who.id, session # 0,
                IF session # 0
                THEN Punish(w.ips, w.userids, w.file, w.users[session], punishment, t)
                ELSE PunishName(w.ips, w.userids, w.roomIps, w.roomUserids, w.file, who.id,
                                punishment, t))

\* lines 1368-1392 of monitorRoomPunishments, on what getRoomPunishments
\* has returned
MonitorFound(w, who, cfg, minPunishments, t, found) ==
  IF Len(found.list) >= minPunishments
  THEN IF cfg.punishmentautolock /\ SumPoints(found.list) >= AUTOLOCK_POINT_THRESHOLD
       THEN Autolock([w EXCEPT !.roomIps = found.roomIps, !.roomUserids = found.roomUserids],
                     who, t)
       ELSE [w EXCEPT !.roomIps = found.roomIps, !.roomUserids = found.roomUserids,
                      !.log = Append(@, "notice")]
  ELSE [w EXCEPT !.roomIps = found.roomIps, !.roomUserids = found.roomUserids]

\* Punishments.monitorRoomPunishments(user)
MonitorRoomPunishments(w, who, cfg, queues, t) ==
  LET minPunishments == IF cfg.monitorminpunishments = NoNumber THEN 3
                        ELSE cfg.monitorminpunishments
  IN IF who.session # 0 /\ w.users[who.session].locked # <<>> THEN w
     ELSE IF minPunishments \in {0, NaN} THEN w
     ELSE MonitorFound(w, who, cfg, minPunishments, t,
                       GetRoomPunishments(w.roomIps, w.roomUserids, w.users, queues, who,
                                          [publicOnly |-> TRUE, checkIps |-> FALSE], t))

\* a test that looks at isPrivate alone
MonitoredUnlessPrivate(room) == ~room.isPrivate

\* the room is one whose punishments the monitor looks at
Monitored(room) == ~(room.isPrivate \/ room.isPersonal \/ room.battle)

\* lines 538-544 of roomPunish: the room stores as the writes have left
\* them, and the row appended to the room file
RoomPunishWritten(w, roomid, punishment, st) ==
  [w EXCEPT !.roomIps = st.roomIps, !.roomUserids = st.roomUserids,
            !.cascade = st.calls,
            !.roomFile = AppendPunishment(@,
                           [keys |-> SetDelete(st.keys, punishment[2]),
                            punishType |-> punishment[1],
                            rest |-> SubSeq(punishment, 3, Len(punishment))],
                           roomid \o <<":">> \o punishment[2])]

\* lines 546 and 578: the monitor runs for a room that is not private,
\* personal or a battle
RoomMonitor(w, roomid, who, cfg, queues, t) ==
  IF Monitored(Rooms(roomid))
  THEN MonitorRoomPunishments([w EXCEPT !.monitor = Append(@, who.id)], who, cfg, queues, t)
  ELSE w

\* Punishments.roomPunish(room, user, punishment) (top-level call):
\* [w, affected]
RoomPunish(w, roomid, session, punishment, cfg, queues, t) ==
  [w |-> RoomMonitor(
           RoomPunishWritten(
             w, roomid, punishment,
             RoomPunishCall([roomIps |-> w.roomIps, roomUserids |-> w.roomUserids, keys |-> <<>>,
                             calls |-> <<>>],
                            roomid, w.users, w.users[session], punishment, FALSE)),
           roomid, [session |-> session, id |-> w.users[session].userid], cfg, queues, t),
   affected |-> IF w.users[session].trusted # <<>>
                THEN <<session>> \o GetAltUsers(w.users[session])
                ELSE GetAltUsers(w.users[session])]

RECURSIVE NestedSetAll(_, _, _, _)
NestedSetAll(M, k1, keyList, value) ==
  IF keyList = <<>> THEN M
  ELSE NestedSetAll(NestedSet(M, k1, keyList[1], value), k1, Tail(keyList), value)

\* lines 563-576 of roomPunishName, with the two Sets filled
RoomPunishNameWritten(w, roomid, punishment, t, useridList, ipList) ==
  [w EXCEPT !.ips = PForEach(@, t), !.userids = PForEach(@, t),
            !.roomIps = NestedSetAll(NestedForEachMap(@, t), roomid, ipList, punishment),
            !.roomUserids = NestedSetAll(NestedForEachMap(@, t), roomid, useridList, punishment),
            !.roomFile = AppendPunishment(@,
                           [keys |-> SetDelete(useridList, punishment[2]) \o ipList,
                            punishType |-> punishment[1],
                            rest |-> SubSeq(punishment, 3, Len(punishment))],
                           roomid \o <<":">> \o punishment[2])]

\* lines 554-579 of roomPunishName, on the keys search has found
RoomPunishNameFound(w, roomid, userid, punishment, cfg, queues, t, foundKeys) ==
  [w |-> RoomMonitor(
           RoomPunishNameWritten(w, roomid, punishment, t,
                                 FoundUserids(userid, foundKeys), FoundIps(foundKeys)),
           roomid, [session |-> 0, id |-> ToId(userid)], cfg, queues, t),
   affected |-> FindUsers(Range(FoundUserids(userid, foundKeys)), Range(FoundIps(foundKeys)))]

\* Punishments.roomPunishName(room, userid, punishment): [w, affected]
RoomPunishName(w, roomid, userid, punishment, cfg, queues, t) ==
  RoomPunishNameFound(w, roomid, userid, punishment, cfg, queues, t,
                      FoundKeys(Search(w.ips, w.userids, w.roomIps, w.roomUserids, userid, t).keys))

RECURSIVE IsRoomBannedIps(_, _, _, _, _, _)
\* the loop of isRoomBanned over user.ips: [roomIps, punishment, returned, val]
IsRoomBannedIps(st, roomid, user, ipList, shared, t) ==
  IF ipList = <<>> \/ st.returned THEN st
  ELSE LET g == NestedGet(st.roomIps, roomid, ipList[1], t)
           st1 == [st EXCEPT !.roomIps = g.m, !.punishment = g.val]
       IN IF g.val # None /\ g.val[1] = ROOMBAN
          THEN [st1 EXCEPT !.returned = TRUE, !.val = g.val]
          ELSE IF g.val # None /\ g.val[1] = BLACKLIST
          THEN [st1 EXCEPT !.returned = TRUE,
                           !.val = IF ipList[1] \in shared /\ user.autoconfirmed # <<>>
                                   THEN None ELSE g.val]
          ELSE IsRoomBannedIps(st1, roomid, user, Tail(ipList), shared, t)

ParentOfNone(roomid) == <<>>

\* Rooms(roomid).parent, <<>> for a room without one
ParentOf(roomid) == Rooms(roomid).parent

RECURSIVE IsRoomBanned(_, _, _, _, _, _)
\* Punishments.isRoomBanned(user, roomid): the punishment returned (None for
\* undefined) and the room stores after the lookups
IsRoomBanned(roomIpMap, roomUseridMap, user, roomid, shared, t) ==
  LET isBan(punishment) == punishment # None /\ punishment[1] \in {ROOMBAN, BLACKLIST}
      g1 == NestedGet(roomUseridMap, roomid, user.userid, t)
      g2 == IF user.autoconfirmed # <<>> THEN NestedGet(g1.m, roomid, user.autoconfirmed, t) ELSE g1
      st == IsRoomBannedIps([roomIps |-> roomIpMap, punishment |-> g2.val, returned |-> FALSE,
                             val |-> None],
                            roomid, user, user.ips, shared, t)
  IN IF isBan(g1.val) THEN [roomIps |-> roomIpMap, roomUserids |-> g1.m, val |-> g1.val]
     ELSE IF user.autoconfirmed # <<>> /\ isBan(g2.val)
     THEN [roomIps |-> roomIpMap, roomUserids |-> g2.m, val |-> g2.val]
     ELSE IF st.returned THEN [roomIps |-> st.roomIps, roomUserids |-> g2.m, val |-> st.val]
     ELSE IF st.punishment = None /\ ParentOf(roomid) # <<>>
     THEN IsRoomBanned(st.roomIps, g2.m, user, ParentOf(roomid), shared, t)
     ELSE [roomIps |-> st.roomIps, roomUserids |-> g2.m, val |-> st.punishment]

(***************************************************************************)
(* SpecStore: the two store classes on their own, under arbitrary writes,  *)
(* reads and the passing of time                                           *)
(***************************************************************************)
StorePunishments == {<<LOCK, ID_al, 1>>, <<BAN, ID_bo, 2>>}
StoreKeys == {ID_al, IP_1111}
RoomStoreKeys == {<<ROOM_lobby, ID_al>>, <<ROOM_lobby, IP_1111>>, <<ROOM_help, ID_al>>}

\* a connection that checkIp has not been given: user is the session of
\* connection.user (0 for null), called the session checkIp was called
\* with, closure the value of its variable user, pending the callbacks
\* that have not run
NoConnection == [ip |-> <<>>, user |-> 0, called |-> 0, closure |-> 0, pending |-> {}]

NoConfig == [monitorminpunishments |-> 3, punishmentautolock |-> TRUE, dnsbl |-> FALSE]

InitStore ==
  /\ now = 0
  /\ ips = <<>> /\ userids = <<>> /\ roomIps = <<>> /\ roomUserids = <<>>
  /\ sharedIps = {} /\ users = <<>> /\ config = NoConfig /\ muteQueue = <<>>
  /\ file = <<>> /\ roomFile = <<>>
  /\ lastOp = [op |-> "init"]
  /\ history = <<>>
  /\ steps = 0
  /\ connection = NoConnection
  /\ cfloods = {} /\ rangebans = <<>>

Tick ==
  /\ now < MaxTime
  /\ now' = now + 1
  /\ lastOp' = [op |-> "tick"]
  /\ UNCHANGED <<connection, cfloods, rangebans, ips, userids, roomIps, roomUserids, sharedIps, users, config, muteQueue, file, roomFile, history, steps>>

StoreSet(k, punishment) ==
  /\ ips' = MapSet(ips, k, punishment)
  /\ lastOp' = [op |-> "set"]
  /\ UNCHANGED <<connection, cfloods, rangebans, now, userids, roomIps, roomUserids, sharedIps, users, config, muteQueue, file, roomFile, history, steps>>

StoreGet(k) ==
  /\ ips' = PGet(ips, k, now).m
  /\ lastOp' = [op |-> "get", key |-> k, pre |-> MapGet(ips, k), t |-> now,
                val |-> PGet(ips, k, now).val]
  /\ UNCHANGED <<connection, cfloods, rangebans, now, userids, roomIps, roomUserids, sharedIps, users, config, muteQueue, file, roomFile, history, steps>>

StoreHas(k) ==
  /\ ips' = PHas(ips, k, now).m
  /\ lastOp' = [op |-> "has", key |-> k, pre |-> MapGet(ips, k), t |-> now,
                found |-> PHas(ips, k, now).val]
  /\ UNCHANGED <<connection, cfloods, rangebans, now, userids, roomIps, roomUserids, sharedIps, users, config, muteQueue, file, roomFile, history, steps>>

StoreForEach ==
  /\ ips' = PForEach(ips, now)
  /\ lastOp' = [op |-> "forEach", pre |-> ips, t |-> now, seen |-> PForEach(ips, now)]
  /\ UNCHANGED <<connection, cfloods, rangebans, now, userids, roomIps, roomUserids, sharedIps, users, config, muteQueue, file, roomFile, history, steps>>

RoomStoreSet(k1, k2, punishment) ==
  /\ roomUserids' = NestedSet(roomUserids, k1, k2, punishment)
  /\ lastOp' = [op |-> "nestedSet"]
  /\ UNCHANGED <<connection, cfloods, rangebans, now, ips, userids, roomIps, sharedIps, users, config, muteQueue, file, roomFile, history, steps>>

RoomStoreGet(k1, k2) ==
  /\ roomUserids' = NestedGet(roomUserids, k1, k2, now).m
  /\ lastOp' = [op |-> "nestedGet", room |-> k1, key |-> k2,
                pre |-> MapGet(MapGet(roomUserids, k1), k2), t |-> now,
                val |-> NestedGet(roomUserids, k1, k2, now).val]
  /\ UNCHANGED <<connection, cfloods, rangebans, now, ips, userids, roomIps, sharedIps, users, config, muteQueue, file, roomFile, history, steps>>

RoomStoreHas(k1, k2) ==
  /\ roomUserids' = NestedHas(roomUserids, k1, k2, now).m
  /\ lastOp' = [op |-> "nestedHas", room |-> k1, key |-> k2,
                pre |-> MapGet(MapGet(roomUserids, k1), k2), t |-> now,
                found |-> NestedHas(roomUserids, k1, k2, now).val]
  /\ UNCHANGED <<connection, cfloods, rangebans, now, ips, userids, roomIps, sharedIps, users, config, muteQueue, file, roomFile, history, steps>>

RoomStoreForEach ==
  /\ roomUserids' = NestedForEachMap(roomUserids, now)
  /\ lastOp' = [op |-> "nestedForEach", pre |-> roomUserids, t |-> now,
                seen |-> NestedForEachSeen(roomUserids, now)]
  /\ UNCHANGED <<connection, cfloods, rangebans, now, ips, userids, roomIps, sharedIps, users, config, muteQueue, file, roomFile, history, steps>>

NextStore ==
  \/ Tick
  \/ \E k \in StoreKeys, punishment \in StorePunishments : StoreSet(k, punishment)
  \/ \E k \in StoreKeys : StoreGet(k)
  \/ \E k \in StoreKeys : StoreHas(k)
  \/ StoreForEach
  \/ \E rk \in RoomStoreKeys, punishment \in StorePunishments : RoomStoreSet(rk[1], rk[2], punishment)
  \/ \E rk \in RoomStoreKeys : RoomStoreGet(rk[1], rk[2])
  \/ \E rk \in RoomStoreKeys : RoomStoreHas(rk[1], rk[2])
  \/ RoomStoreForEach

SpecStore == InitStore /\ [][NextStore]_vars

(***************************************************************************)
(* Spec: the global punishments of a running server.  Moderators ban,      *)
(* lock and namelock sessions, lock offline users by name, lift            *)
(* punishments, punish address ranges and reload the ban list; sessions    *)
(* go away; time passes; the process restarts and loads its files.         *)
(***************************************************************************)
NoUser == [name |-> <<>>, userid |-> <<>>, named |-> FALSE, prevId |-> <<>>, ips |-> <<>>,
           autoconfirmed |-> <<>>, trusted |-> <<>>, locked |-> <<>>, namelocked |-> <<>>,
           connected |-> TRUE, guestNum |-> "0", inRooms |-> {},
           latestIp |-> <<>>, latestHost |-> <<>>, semilocked |-> <<>>]

U_al == [NoUser EXCEPT !.name = <<"A","l">>, !.userid = ID_al, !.named = TRUE,
                       !.ips = <<IP_1111>>, !.autoconfirmed = ID_al, !.guestNum = "1"]
U_bo == [NoUser EXCEPT !.name = <<"b","o">>, !.userid = ID_bo, !.named = TRUE,
                       !.ips = <<IP_1111, IP_1112>>, !.guestNum = "2"]

\* expireTime arguments of the wrappers; 0 asks for the default duration
ExpireTimes == {0, 1}
RANGE_111 == <<"1",".","1",".","1",".","*">>
REASON == <<"r">>
\* an id with the reserved marker, as a caller of lock may pass one
ID_reserved == <<"#","x">>

\* config/ipbans.txt: an address with a comment, and a CIDR range
IPBANS_TXT ==
  IP_1112 \o <<" ","#","x","\n","1",".","1",".","0",".","0","/","1","6","\n">>

\* user.resetName(): the session takes its guest name
ResetName(user) ==
  [user EXCEPT !.name = <<"G","u","e","s","t"," ">> \o <<user.guestNum>>,
               !.userid = <<"g","u","e","s","t">> \o <<user.guestNum>>,
               !.named = FALSE,
               !.prevId = IF user.named THEN user.userid ELSE user.prevId]

Init ==
  /\ now = 0
  /\ ips = <<>> /\ userids = <<>> /\ roomIps = <<>> /\ roomUserids = <<>>
  /\ sharedIps = {}
  /\ users \in {<<U_al>>, <<U_al, U_bo>>}
  /\ config = NoConfig /\ muteQueue = <<>>
  /\ file = <<>> /\ roomFile = <<>>
  /\ lastOp = [op |-> "init"]
  /\ history = <<>>
  /\ steps = 0
  /\ connection = NoConnection
  /\ cfloods = {} /\ rangebans = <<>>

CanStep == steps < MaxSteps

\* one more operation done: op on id, with the kind and the expiry it was given
Step(op, id, punishType, expireTime) ==
  /\ steps' = steps + 1
  /\ history' = Append(history, [op |-> op, id |-> id, punishType |-> punishType,
                                 expireTime |-> expireTime])

Pre == [ips |-> ips, userids |-> userids, file |-> file, users |-> users]

\* the mute timer of every room: the entries whose time has come are dropped
RunMuteTimer(queues, t) ==
  [i \in DOMAIN queues |->
     [k |-> queues[i].k, v |-> SelectSeq(queues[i].v, LAMBDA entry : entry.time > t)]]

Pass ==
  /\ CanStep
  /\ now < MaxTime
  /\ now' = now + 1
  /\ Step("tick", <<>>, <<>>, 0)
  /\ lastOp' = [op |-> "tick"]
  /\ muteQueue' = RunMuteTimer(muteQueue, now + 1)
  /\ UNCHANGED <<connection, cfloods, rangebans, globalStores, roomStores, sharedIps, users, config>>

\* what punish and punishName leave behind, and the record of the call
Punished(opName, user, asked, r, mark(_, _)) ==
  /\ CanStep
  /\ ips' = r.ips /\ userids' = r.userids /\ file' = r.file
  /\ users' = [i \in DOMAIN users |->
                 IF i \in Range(r.affected) THEN mark(users[i], asked[2]) ELSE users[i]]
  /\ lastOp' = [op |-> "punish", via |-> opName, user |-> user, asked |-> asked,
                pre |-> Pre, t |-> now,
                existing |-> PGet(userids, ToId(user.name), now).val,
                punishment |-> r.punishment, affected |-> r.affected,
                calls |-> r.calls, wIps |-> r.wIps, wUserids |-> r.wUserids]
  /\ Step(opName, asked[2], asked[1], asked[3])
  /\ UNCHANGED <<connection, cfloods, rangebans, now, roomStores, sharedIps, config, muteQueue>>

\* Punishments.ban(user, expireTime, undefined, reason)
Ban(ui, expireTime) ==
  LET user == users[ui]
      id == GetLastId(user)
      punishment == <<BAN, id, IF expireTime = 0 THEN now + BAN_DURATION ELSE expireTime, REASON>>
  IN Punished("ban", user, punishment, Punish(ips, userids, file, user, punishment, now),
              LAMBDA u, locked : [u EXCEPT !.locked = locked, !.connected = FALSE])

\* Punishments.lock(user, expireTime, undefined, reason) for a session
Lock(ui, expireTime) ==
  LET user == users[ui]
      id == GetLastId(user)
      punishment == <<LOCK, id, IF expireTime = 0 THEN now + LOCK_DURATION ELSE expireTime, REASON>>
  IN Punished("lock", user, punishment, Punish(ips, userids, file, user, punishment, now),
              LAMBDA u, locked : [u EXCEPT !.locked = locked])

\* Punishments.lock(undefined, expireTime, id, reason): the session is
\* looked up by the id; with none, punishName does the work
LockName(id, expireTime) ==
  LET punishment == <<LOCK, id, IF expireTime = 0 THEN now + LOCK_DURATION ELSE expireTime, REASON>>
      r == PunishName(ips, userids, roomIps, roomUserids, file, id, punishment, now)
  IN IF UsersGet(ToId(id)) # 0
     THEN Punished("lock", users[UsersGet(ToId(id))], punishment,
                   Punish(ips, userids, file, users[UsersGet(ToId(id))], punishment, now),
                   LAMBDA u, locked : [u EXCEPT !.locked = locked])
     ELSE /\ CanStep
          /\ ips' = r.ips /\ userids' = r.userids /\ file' = r.file
          /\ roomIps' = r.roomIps /\ roomUserids' = r.roomUserids
          /\ users' = [i \in DOMAIN users |->
                         IF i \in Range(r.affected) THEN [users[i] EXCEPT !.locked = id]
                         ELSE users[i]]
          /\ lastOp' = [op |-> "punishName", id |-> id, asked |-> punishment, pre |-> Pre,
                        t |-> now, existing |-> PGet(userids, id, now).val,
                        punishment |-> r.punishment, affected |-> r.affected]
          /\ Step("lock", id, LOCK, punishment[3])
          /\ UNCHANGED <<connection, cfloods, rangebans, now, roomFile, sharedIps, config, muteQueue>>

\* Punishments.namelock(user, expireTime, undefined, reason)
Namelock(ui, expireTime) ==
  LET user == users[ui]
      id == GetLastId(user)
      punishment == <<NAMELOCK, id, IF expireTime = 0 THEN now + LOCK_DURATION ELSE expireTime, REASON>>
  IN Punished("namelock", user, punishment, Punish(ips, userids, file, user, punishment, now),
              LAMBDA u, locked : ResetName([u EXCEPT !.locked = locked, !.namelocked = locked]))

\* Punishments.unpunish(id, punishType)
UnpunishOp(id, punishType) ==
  LET r == Unpunish(ips, userids, file, id, punishType, now)
  IN /\ CanStep
     /\ ips' = r.ips /\ userids' = r.userids /\ file' = r.file
     /\ lastOp' = [op |-> "unpunish", id |-> id, punishType |-> punishType, pre |-> Pre,
                   t |-> now, success |-> r.success, resolved |-> r.id]
     /\ Step("unpunish", id, punishType, 0)
     /\ UNCHANGED <<connection, cfloods, rangebans, now, roomStores, sharedIps, users, config, muteQueue>>

\* Punishments.lockRange (LOCK) and Punishments.banRange (BAN)
RangeOp(punishType, range) ==
  /\ CanStep
  /\ ips' = RangePunish(ips, punishType, range, REASON, now)
  /\ lastOp' = [op |-> "range", pre |-> Pre, t |-> now]
  /\ Step("range", range, punishType, now + RANGELOCK_DURATION)
  /\ UNCHANGED <<connection, cfloods, rangebans, now, userids, file, roomStores, sharedIps, users, config, muteQueue>>

LockRange(range) == RangeOp(LOCK, range)

BanRange(range) == RangeOp(BAN, range)

\* Punishments.loadBanlist
LoadBanlistOp ==
  /\ CanStep
  /\ ips' = LoadBanlist(ips, IPBANS_TXT, now)
  /\ rangebans' = Rangebans(rangebans, IPBANS_TXT)
  /\ lastOp' = [op |-> "loadBanlist", pre |-> Pre, t |-> now]
  /\ Step("loadBanlist", <<>>, <<>>, 0)
  /\ UNCHANGED <<connection, cfloods, now, userids, file, roomStores, sharedIps, users, config, muteQueue>>

\* the identity provider drops a session that has gone away
DestroyUser(ui) ==
  /\ CanStep
  /\ users' = SelectSeq(users, LAMBDA u : u.userid # users[ui].userid)
  /\ lastOp' = [op |-> "destroy"]
  /\ Step("destroy", users[ui].userid, <<>>, 0)
  /\ UNCHANGED <<connection, cfloods, rangebans, now, globalStores, roomStores, sharedIps, config, muteQueue>>

\* a new process: empty stores, no sessions, empty mute queues, then the
\* loads of lines 372-377; loadPunishments and loadBanlist each wait for
\* their file, so either may run first
Restart(banlistFirst) ==
  LET empty == [ips |-> <<>>, userids |-> <<>>, threw |-> FALSE]
      first == IF banlistFirst THEN [empty EXCEPT !.ips = LoadBanlist(<<>>, IPBANS_TXT, now)]
               ELSE empty
      loaded == LoadPunishments(first, file, now)
      loadedRoom == LoadRoomPunishments(empty, roomFile, now)
  IN /\ CanStep
     /\ ips' = IF banlistFirst THEN loaded.ips ELSE LoadBanlist(loaded.ips, IPBANS_TXT, now)
     /\ userids' = loaded.userids
     /\ roomIps' = loadedRoom.ips /\ roomUserids' = loadedRoom.userids
     /\ users' = <<>> /\ muteQueue' = <<>>
     /\ cfloods' = {} /\ rangebans' = Rangebans(<<>>, IPBANS_TXT)
     /\ lastOp' = [op |-> "restart", pre |-> Pre, t |-> now, threw |-> loaded.threw]
     /\ Step("restart", <<>>, <<>>, 0)
     /\ UNCHANGED <<connection, now, file, roomFile, sharedIps, config>>

\* the locks by name asked for: <<id, expireTime>>
NameLocks == {<<ID_al, 0>>, <<ID_al, 1>>, <<ID_bo, 0>>, <<ID_bo, 1>>, <<ID_reserved, 0>>}

\* the punishments moderators ask to lift: <<id, punishType>>
Lifts == {<<ID_al, LOCK>>, <<ID_al, BAN>>, <<ID_bo, LOCK>>}

Next ==
  \/ Pass
  \/ \E ui \in DOMAIN users, expireTime \in ExpireTimes : Ban(ui, expireTime)
  \/ \E ui \in DOMAIN users, expireTime \in ExpireTimes : Lock(ui, expireTime)
  \/ \E lock \in NameLocks : UsersGet(ToId(lock[1])) = 0 /\ LockName(lock[1], lock[2])
  \/ \E ui \in DOMAIN users : Namelock(ui, 0)
  \/ \E lift \in Lifts : UnpunishOp(lift[1], lift[2])
  \/ LockRange(RANGE_111)
  \/ \E ui \in DOMAIN users : DestroyUser(ui)
  \/ \E banlistFirst \in BOOLEAN : Restart(banlistFirst)

Spec == Init /\ [][Next]_vars

(***************************************************************************)
(* SpecCascade: one session on its own, of every shape (named, never       *)
(* named, name reset; with and without autoconfirmed and trusted ids; up   *)
(* to MaxIps addresses), punished from empty stores                        *)
(***************************************************************************)
MaxIps == 2

CascadeIps == <<IP_1111, IP_1112, IP_1121>>

\* the lists of the first k of these addresses, for k up to n
IpLists(n) == {SubSeq(CascadeIps, 1, k) : k \in 0..n}

U_guest == [NoUser EXCEPT !.name = <<"G","u","e","s","t"," ","1">>, !.userid = ID_guest1,
                          !.guestNum = "1"]

CascadeUsers ==
  {[u EXCEPT !.ips = l, !.autoconfirmed = a, !.trusted = tr] :
     u \in {U_al, U_guest, ResetName(U_al)}, l \in IpLists(MaxIps),
     a \in {<<>>, ID_al, ID_bo}, tr \in {<<>>, ID_al}}

InitCascade ==
  /\ now = 0
  /\ ips = <<>> /\ userids = <<>> /\ roomIps = <<>> /\ roomUserids = <<>>
  /\ sharedIps = {}
  /\ users \in {<<u>> : u \in CascadeUsers}
  /\ config = NoConfig /\ muteQueue = <<>>
  /\ file = <<>> /\ roomFile = <<>>
  /\ lastOp = [op |-> "init"]
  /\ history = <<>>
  /\ steps = 0
  /\ connection = NoConnection
  /\ cfloods = {} /\ rangebans = <<>>

NextCascade ==
  \/ Pass
  \/ \E expireTime \in ExpireTimes : Ban(1, expireTime)
  \/ \E expireTime \in ExpireTimes : Lock(1, expireTime)
  \/ \E expireTime \in ExpireTimes : Namelock(1, expireTime)

SpecCascade == InitCascade /\ [][NextCascade]_vars

(***************************************************************************)
(* SpecIp: the address store under range punishments, the ban list and     *)
(* the passing of time, queried with ipSearch                              *)
(***************************************************************************)
RANGE_11 == <<"1",".","1",".","*">>
RANGE_1 == <<"1",".","*">>
IP_11112 == <<"1",".","1",".","1",".","1","2">>
IP_1211 == <<"1",".","2",".","1",".","1">>
IP_2111 == <<"2",".","1",".","1",".","1">>

IpRanges == {RANGE_111, RANGE_11, RANGE_1}
IpQueries == {IP_1111, IP_1112, IP_11112, IP_1121, IP_1211, IP_2111}

InitIp ==
  /\ now = 0
  /\ ips = <<>> /\ userids = <<>> /\ roomIps = <<>> /\ roomUserids = <<>>
  /\ sharedIps = {}
  /\ users = <<>>
  /\ config = NoConfig /\ muteQueue = <<>>
  /\ file = <<>> /\ roomFile = <<>>
  /\ lastOp = [op |-> "init"]
  /\ history = <<>>
  /\ steps = 0
  /\ connection = NoConnection
  /\ cfloods = {} /\ rangebans = <<>>

\* Punishments.ipSearch(ip)
IpSearchOp(ip) ==
  LET r == IpSearch(ips, ip, now)
  IN /\ CanStep
     /\ ips' = r.m
     /\ lastOp' = [op |-> "ipSearch", ip |-> ip, pre |-> Pre, t |-> now, val |-> r.val]
     /\ Step("ipSearch", ip, <<>>, 0)
     /\ UNCHANGED <<connection, cfloods, rangebans, now, userids, file, roomStores, sharedIps, users, config, muteQueue>>

NextIp ==
  \/ Pass
  \/ \E range \in IpRanges : LockRange(range)
  \/ \E range \in IpRanges : BanRange(range)
  \/ LoadBanlistOp
  \/ \E ip \in IpQueries : IpSearchOp(ip)

SpecIp == InitIp /\ [][NextIp]_vars

(***************************************************************************)
(* Room punishments: the wrappers roomBan and roomBlacklist, the mutes a   *)
(* room keeps, and isRoomBanned                                            *)
(***************************************************************************)
World == [ips |-> ips, userids |-> userids, roomIps |-> roomIps, roomUserids |-> roomUserids,
          file |-> file, roomFile |-> roomFile, users |-> users, log |-> <<>>,
          monitor |-> <<>>, cascade |-> <<>>]

\* curUser.leaveRoom(room.id), then leaveRoom(subRoom.id) for room.subRooms
LeaveRooms(sessions, affected, roomid) ==
  [i \in DOMAIN sessions |->
     IF i \in Range(affected)
     THEN [sessions[i] EXCEPT !.inRooms = @ \ ({roomid} \cup SubRooms(roomid))]
     ELSE sessions[i]]

\* what a room punishment leaves behind, and the record of the call
RoomPunished(opName, roomid, who, asked, r, calls) ==
  /\ CanStep
  /\ ips' = r.w.ips /\ userids' = r.w.userids /\ file' = r.w.file
  /\ roomIps' = r.w.roomIps /\ roomUserids' = r.w.roomUserids /\ roomFile' = r.w.roomFile
  /\ users' = LeaveRooms(r.w.users, r.affected, roomid)
  /\ lastOp' = [op |-> "roomPunish", via |-> opName, room |-> roomid, who |-> who,
                asked |-> asked, pre |-> World, t |-> now, calls |-> calls,
                log |-> r.w.log, affected |-> r.affected, monitor |-> r.w.monitor,
                cascade |-> r.w.cascade]
  /\ Step(opName, asked[2], asked[1], asked[3])
  /\ UNCHANGED <<connection, cfloods, rangebans, now, sharedIps, config, muteQueue>>

\* what roomPunish called on its own leaves behind: nobody leaves the room
RoomPunishedBy(opName, roomid, who, asked, r) ==
  /\ CanStep
  /\ ips' = r.w.ips /\ userids' = r.w.userids /\ file' = r.w.file
  /\ roomIps' = r.w.roomIps /\ roomUserids' = r.w.roomUserids /\ roomFile' = r.w.roomFile
  /\ users' = r.w.users
  /\ lastOp' = [op |-> "roomPunish", via |-> opName, room |-> roomid, who |-> who,
                asked |-> asked, pre |-> World, t |-> now, calls |-> 1,
                log |-> r.w.log, affected |-> r.affected, monitor |-> r.w.monitor,
                cascade |-> r.w.cascade]
  /\ Step(opName, asked[2], asked[1], asked[3])
  /\ UNCHANGED <<connection, cfloods, rangebans, now, sharedIps, config, muteQueue>>

\* Punishments.roomBan(room, user, expireTime, undefined, reason)
RoomBan(roomid, ui, expireTime) ==
  LET user == users[ui]
      userId == GetLastId(user)
      punishment == <<ROOMBAN, userId,
                      IF expireTime = 0 THEN now + ROOMBAN_DURATION ELSE expireTime, REASON>>
  IN RoomPunished("roomBan", roomid, [session |-> ui, id |-> user.userid], punishment,
                  RoomPunish(World, roomid, ui, punishment, config, muteQueue, now), 1)

\* affected.concat(...) of line 867
ConcatAffected(affected, r) == [w |-> r.w, affected |-> affected \o r.affected]

\* lines 866-868 of roomBlacklist: roomPunish on what roomPunishName, if it
\* was called, has left (r1)
RoomBlacklistSession(roomid, ui, punishment, r1) ==
  ConcatAffected(r1.affected, RoomPunish(r1.w, roomid, ui, punishment, config, muteQueue, now))

\* Punishments.roomBlacklist(room, user, expireTime, undefined, reason) for a
\* session: a session whose last id is not its userid goes through
\* roomPunishName first
RoomBlacklist(roomid, ui, expireTime) ==
  LET user == users[ui]
      userId == GetLastId(user)
      punishment == <<BLACKLIST, userId,
                      IF expireTime = 0 THEN now + BLACKLIST_DURATION ELSE expireTime, REASON>>
      byName == userId # <<>> /\ userId # user.userid
  IN RoomPunished("roomBlacklist", roomid, [session |-> ui, id |-> user.userid], punishment,
                  RoomBlacklistSession(
                    roomid, ui, punishment,
                    IF byName
                    THEN RoomPunishName(World, roomid, userId, punishment, config, muteQueue, now)
                    ELSE [w |-> World, affected |-> <<>>]),
                  IF byName THEN 2 ELSE 1)

\* Punishments.roomBlacklist(room, undefined, expireTime, userId, reason) for
\* a userId that no session has
RoomBlacklistName(roomid, userId, expireTime) ==
  LET punishment == <<BLACKLIST, userId,
                      IF expireTime = 0 THEN now + BLACKLIST_DURATION ELSE expireTime, REASON>>
  IN /\ UsersGet(ToId(userId)) = 0
     /\ RoomPunished("roomBlacklist", roomid, [session |-> 0, id |-> ToId(userId)], punishment,
                     RoomPunishName(World, roomid, userId, punishment, config, muteQueue, now), 1)

\* room.mute(user) for an hour: the user's entry in the queue of the room is
\* replaced
Mute(roomid, ui) ==
  LET user == users[ui]
      queue == SelectSeq(MapGet(muteQueue, roomid), LAMBDA entry : entry.userid # user.userid)
      entry == [userid |-> user.userid, time |-> now + 1, guestNum |-> user.guestNum,
                autoconfirmed |-> user.autoconfirmed]
  IN /\ CanStep
     /\ muteQueue' = MapSet(muteQueue, roomid, Append(queue, entry))
     /\ lastOp' = [op |-> "mute", room |-> roomid]
     /\ Step("mute", user.userid, MUTE, now + 1)
     /\ UNCHANGED <<connection, cfloods, rangebans, now, globalStores, roomStores, sharedIps, users, config>>

\* Punishments.isRoomBanned(user, roomid)
IsRoomBannedOp(ui, roomid) ==
  LET r == IsRoomBanned(roomIps, roomUserids, users[ui], roomid, sharedIps, now)
  IN /\ CanStep
     /\ roomIps' = r.roomIps /\ roomUserids' = r.roomUserids
     /\ lastOp' = [op |-> "isRoomBanned", user |-> users[ui], room |-> roomid, pre |-> World,
                   t |-> now, val |-> r.val]
     /\ Step("isRoomBanned", users[ui].userid, <<>>, 0)
     /\ UNCHANGED <<connection, cfloods, rangebans, now, globalStores, roomFile, sharedIps, users, config, muteQueue>>

(***************************************************************************)
(* SpecRoom: two sessions behind one address, which may be a shared one,   *)
(* are banned from and blacklisted in the nested rooms, and asked about    *)
(***************************************************************************)
InRooms(user, roomids) == [user EXCEPT !.inRooms = roomids]

InitRoom ==
  /\ now = 0
  /\ ips = <<>> /\ userids = <<>> /\ roomIps = <<>> /\ roomUserids = <<>>
  /\ sharedIps \in {{}, {IP_1111}}
  /\ users = << InRooms(U_al, {ROOM_lobby, ROOM_help, ROOM_sub}),
                InRooms(U_bo, {ROOM_lobby, ROOM_help, ROOM_sub}) >>
  /\ config = NoConfig /\ muteQueue = <<>>
  /\ file = <<>> /\ roomFile = <<>>
  /\ lastOp = [op |-> "init"]
  /\ history = <<>>
  /\ steps = 0
  /\ connection = NoConnection
  /\ cfloods = {} /\ rangebans = <<>>

NextRoom ==
  \/ Pass
  \/ \E roomid \in {ROOM_lobby, ROOM_help}, ui \in DOMAIN users, expireTime \in ExpireTimes :
        RoomBan(roomid, ui, expireTime)
  \/ \E roomid \in {ROOM_lobby, ROOM_help}, ui \in DOMAIN users : RoomBlacklist(roomid, ui, 0)
  \/ \E ui \in DOMAIN users, roomid \in {ROOM_help, ROOM_sub} : IsRoomBannedOp(ui, roomid)

SpecRoom == InitRoom /\ [][NextRoom]_vars

(***************************************************************************)
(* SpecMonitor: one session and one offline name collect room punishments  *)
(* and mutes in public, personal and private rooms, under every setting of *)
(* the monitor                                                             *)
(***************************************************************************)
MonitorConfigs ==
  {[monitorminpunishments |-> 2, punishmentautolock |-> TRUE, dnsbl |-> FALSE],
   [monitorminpunishments |-> 2, punishmentautolock |-> FALSE, dnsbl |-> FALSE],
   [monitorminpunishments |-> NoNumber, punishmentautolock |-> TRUE, dnsbl |-> FALSE],
   [monitorminpunishments |-> 0, punishmentautolock |-> TRUE, dnsbl |-> FALSE]}

\* the room bans asked for: <<room, expireTime>>
MonitorBans ==
  {<<ROOM_lobby, 0>>, <<ROOM_lobby, 1>>, <<ROOM_help, 0>>, <<ROOM_tours, 0>>,
   <<ROOM_sub, 0>>, <<ROOM_staff, 0>>, <<ROOM_battle, 0>>}

InitMonitor ==
  /\ now = 0
  /\ ips = <<>> /\ userids = <<>> /\ roomIps = <<>> /\ roomUserids = <<>>
  /\ sharedIps = {}
  /\ users = << InRooms(U_al, {ROOM_lobby, ROOM_help, ROOM_tours}) >>
  /\ config \in MonitorConfigs /\ muteQueue = <<>>
  /\ file = <<>> /\ roomFile = <<>>
  /\ lastOp = [op |-> "init"]
  /\ history = <<>>
  /\ steps = 0
  /\ connection = NoConnection
  /\ cfloods = {} /\ rangebans = <<>>

NextMonitor ==
  \/ Pass
  \/ \E ban \in MonitorBans : RoomBan(ban[1], 1, ban[2])
  \/ \E roomid \in {ROOM_lobby, ROOM_help, ROOM_tours} : RoomBlacklist(roomid, 1, 0)
  \/ \E roomid \in {ROOM_lobby, ROOM_tours} : RoomBlacklistName(roomid, ID_bo, 0)
  \/ \E roomid \in {ROOM_lobby, ROOM_tours} : Mute(roomid, 1)
  \/ Lock(1, 0)

SpecMonitor == InitMonitor /\ [][NextMonitor]_vars

(***************************************************************************)
(* Lifting room punishments: saveRoomPunishments, roomUnpunish and the     *)
(* wrappers roomUnban, roomUnblacklist and roomUnblacklistAll              *)
(***************************************************************************)
\* 'Punishment\tRoom ID:User ID\tIPs and alts\tExpires\r\n'
ROOM_PUNISHMENT_HEADER ==
  STR_Punishment \o <<"\t","R","o","o","m"," ","I","D",":","U","s","e","r"," ","I","D","\t">>
  \o <<"I","P","s"," ","a","n","d"," ","a","l","t","s","\t">>
  \o <<"E","x","p","i","r","e","s","\r","\n">>

RECURSIVE RoomSaveTableIps(_, _)
\* first loop of saveRoomPunishments, over the live (punishment, roomid, ip)
RoomSaveTableIps(saveTable, seen) ==
  IF seen = <<>> THEN saveTable
  ELSE LET punishment == seen[1].v
           id == seen[1].k1 \o <<":">> \o punishment[2]
           entry == MapGet(saveTable, id)
       IN IF id[1] = "#" THEN RoomSaveTableIps(saveTable, Tail(seen))
          ELSE IF MapHas(saveTable, id)
          THEN RoomSaveTableIps(MapSet(saveTable, id, [entry EXCEPT !.keys = Append(@, seen[1].k2)]),
                                Tail(seen))
          ELSE RoomSaveTableIps(
                 MapSet(saveTable, id, [keys |-> <<seen[1].k2>>, punishType |-> punishment[1],
                                        rest |-> SubSeq(punishment, 3, Len(punishment))]),
                 Tail(seen))

RECURSIVE RoomSaveTableUserids(_, _)
\* second loop of saveRoomPunishments, over the live (punishment, roomid, userid)
RoomSaveTableUserids(saveTable, seen) ==
  IF seen = <<>> THEN saveTable
  ELSE LET punishment == seen[1].v
           id == seen[1].k1 \o <<":">> \o punishment[2]
           table1 == IF MapHas(saveTable, id) THEN saveTable
                     ELSE MapSet(saveTable, id, [keys |-> <<>>, punishType |-> punishment[1],
                                                 rest |-> SubSeq(punishment, 3, Len(punishment))])
           entry == MapGet(table1, id)
       IN IF seen[1].k2 # punishment[2]
          THEN RoomSaveTableUserids(
                 MapSet(table1, id, [entry EXCEPT !.keys = Append(@, seen[1].k2)]), Tail(seen))
          ELSE RoomSaveTableUserids(table1, Tail(seen))

\* Punishments.saveRoomPunishments: the text written, and the room stores as
\* the two nestedForEach loops leave them
SaveRoomPunishments(roomIpMap, roomUseridMap, t) ==
  [roomIps |-> NestedForEachMap(roomIpMap, t),
   roomUserids |-> NestedForEachMap(roomUseridMap, t),
   roomFile |-> ROOM_PUNISHMENT_HEADER
                \o RenderTable(RoomSaveTableUserids(
                                 RoomSaveTableIps(<<>>, NestedForEachSeen(roomIpMap, t)),
                                 NestedForEachSeen(roomUseridMap, t)))]

\* the Room object itself where a Map key is expected: the keys of the room
\* stores are room id strings, and no string is the same value as an object
RoomObjectKey(roomid) == <<"[object Room]">> \o roomid

\* subMap.forEach of roomUnpunish: the matching entries are deleted from the
\* inner Map itself, which stays in the outer map even when it ends up empty
RoomUnpunishSubMap(M, roomid, id, punishType) ==
  IF ~MapHas(M, roomid) THEN M
  ELSE MapSet(M, roomid,
              SelectSeq(MapGet(M, roomid), LAMBDA e : ~UnpunishMatch(e.v, id, punishType)))

\* what roomUnpunish returns after saveRoomPunishments (saved)
RoomUnpunishSaved(saved, id) ==
  [roomIps |-> saved.roomIps, roomUserids |-> saved.roomUserids, roomFile |-> saved.roomFile,
   success |-> TRUE, id |-> id]

\* lines 615-619 of roomUnpunish, on the stores the two loops have left
RoomUnpunishDone(roomIpMap, roomUseridMap, roomText, id, success, ignoreWrite, t) ==
  IF success /\ ~ignoreWrite
  THEN RoomUnpunishSaved(SaveRoomPunishments(roomIpMap, roomUseridMap, t), id)
  ELSE [roomIps |-> roomIpMap, roomUserids |-> roomUseridMap, roomFile |-> roomText,
        success |-> success, id |-> id]

\* lines 596-619 of roomUnpunish, id being resolved; success = id: the empty
\* id is as good as undefined
RoomUnpunishId(roomIpMap, roomUseridMap, roomText, roomid, id, punishType, ignoreWrite, t) ==
  RoomUnpunishDone(RoomUnpunishSubMap(roomIpMap, roomid, id, punishType),
                   RoomUnpunishSubMap(roomUseridMap, roomid, id, punishType),
                   roomText, id,
                   id # <<>> /\ (RoomUnpunishSubMap(roomIpMap, roomid, id, punishType) # roomIpMap
                                 \/ RoomUnpunishSubMap(roomUseridMap, roomid, id, punishType)
                                    # roomUseridMap),
                   ignoreWrite, t)

\* Punishments.roomUnpunish(room, id, punishType, ignoreWrite); line 590
\* looks the id up under the room, not under room.id
RoomUnpunish(roomIpMap, roomUseridMap, roomText, roomid, idArg, punishType, ignoreWrite, t) ==
  LET got == NestedGet(roomUseridMap, RoomObjectKey(roomid), ToId(idArg), t)
  IN RoomUnpunishId(roomIpMap, got.m, roomText, roomid,
                    IF got.val # None THEN got.val[2] ELSE ToId(idArg),
                    punishType, ignoreWrite, t)

\* lines 897-901 / 911-915: roomUnpunish under the id of the punishment that
\* isRoomBanned has found (b), if it found one
RoomLiftFound(b, roomText, roomid, userid, punishType, ignoreWrite, t) ==
  RoomUnpunish(b.roomIps, b.roomUserids, roomText, roomid,
               IF b.val # None THEN b.val[2] ELSE userid, punishType, ignoreWrite, t)

\* the body shared by roomUnban and roomUnblacklist
RoomLift(roomIpMap, roomUseridMap, roomText, sessions, roomid, userid, punishType, shared, ignoreWrite, t) ==
  RoomLiftFound(IF UsersGet(ToId(userid)) # 0
                THEN IsRoomBanned(roomIpMap, roomUseridMap, sessions[UsersGet(ToId(userid))], roomid,
                                  shared, t)
                ELSE [roomIps |-> roomIpMap, roomUserids |-> roomUseridMap, val |-> None],
                roomText, roomid, userid, punishType, ignoreWrite, t)

\* Punishments.roomUnban(room, userid)
RoomUnban(roomIpMap, roomUseridMap, roomText, sessions, roomid, userid, shared, t) ==
  RoomLift(roomIpMap, roomUseridMap, roomText, sessions, roomid, userid, ROOMBAN, shared,
           FALSE, t)

\* Punishments.roomUnblacklist(room, userid, ignoreWrite)
RoomUnblacklist(roomIpMap, roomUseridMap, roomText, sessions, roomid, userid, shared, ignoreWrite, t) ==
  RoomLift(roomIpMap, roomUseridMap, roomText, sessions, roomid, userid, BLACKLIST, shared,
           ignoreWrite, t)

\* one turn of roombans.forEach: r is what roomUnblacklist has returned
RoomUnblacklistOne(st, userid, r) ==
  [roomIps |-> r.roomIps, roomUserids |-> r.roomUserids,
   unblacklisted |-> Append(st.unblacklisted, userid)]

RECURSIVE RoomUnblacklistLoop(_, _, _, _, _, _, _)
\* roombans.forEach of roomUnblacklistAll over the keys the inner Map had at
\* first: an entry deleted before its turn is not visited
RoomUnblacklistLoop(st, roomText, sessions, roomid, keyList, shared, t) ==
  IF keyList = <<>> THEN st
  ELSE RoomUnblacklistLoop(
         IF /\ MapHas(st.roomUserids, roomid)
            /\ MapHas(MapGet(st.roomUserids, roomid), keyList[1])
            /\ MapGet(MapGet(st.roomUserids, roomid), keyList[1])[1] = BLACKLIST
         THEN RoomUnblacklistOne(st, keyList[1],
                                 RoomUnblacklist(st.roomIps, st.roomUserids, roomText, sessions,
                                                 roomid, keyList[1], shared, TRUE, t))
         ELSE st,
         roomText, sessions, roomid, Tail(keyList), shared, t)

\* lines 933-935 of roomUnblacklistAll, after the loop (st); val FALSE for
\* false, else unblacklisted is returned
RoomUnblacklistAllDone(st, roomText, t, saved) ==
  IF st.unblacklisted = <<>>
  THEN [roomIps |-> st.roomIps, roomUserids |-> st.roomUserids, roomFile |-> roomText,
        val |-> FALSE, unblacklisted |-> <<>>]
  ELSE [roomIps |-> saved.roomIps, roomUserids |-> saved.roomUserids,
        roomFile |-> saved.roomFile, val |-> TRUE, unblacklisted |-> st.unblacklisted]

\* roomUnblacklistAll from the loop on
RoomUnblacklistAllFrom(st, roomText, t) ==
  RoomUnblacklistAllDone(st, roomText, t, SaveRoomPunishments(st.roomIps, st.roomUserids, t))

\* Punishments.roomUnblacklistAll(room)
RoomUnblacklistAll(roomIpMap, roomUseridMap, roomText, sessions, roomid, shared, t) ==
  IF ~MapHas(roomUseridMap, roomid)
  THEN [roomIps |-> roomIpMap, roomUserids |-> roomUseridMap, roomFile |-> roomText,
        val |-> FALSE, unblacklisted |-> <<>>]
  ELSE RoomUnblacklistAllFrom(
         RoomUnblacklistLoop([roomIps |-> roomIpMap, roomUserids |-> roomUseridMap,
                              unblacklisted |-> <<>>],
                             roomText, sessions, roomid,
                             [i \in DOMAIN MapGet(roomUseridMap, roomid) |->
                                MapGet(roomUseridMap, roomid)[i].k],
                             shared, t),
         roomText, t)

\* what a lift leaves behind, and the record of the call
RoomLifted(opName, roomid, id, punishType, r) ==
  /\ CanStep
  /\ roomIps' = r.roomIps /\ roomUserids' = r.roomUserids /\ roomFile' = r.roomFile
  /\ lastOp' = [op |-> "roomUnpunish", via |-> opName, room |-> roomid, id |-> id,
                punishType |-> punishType, pre |-> World, t |-> now,
                success |-> r.success, resolved |-> r.id]
  /\ Step(opName, id, punishType, 0)
  /\ UNCHANGED <<connection, cfloods, rangebans, now, globalStores, sharedIps, users, config, muteQueue>>

RoomUnpunishOp(roomid, id, punishType) ==
  RoomLifted("roomUnpunish", roomid, id, punishType,
             RoomUnpunish(roomIps, roomUserids, roomFile, roomid, id, punishType, FALSE, now))

RoomUnbanOp(roomid, userid) ==
  RoomLifted("roomUnban", roomid, userid, ROOMBAN,
             RoomUnban(roomIps, roomUserids, roomFile, users, roomid, userid, sharedIps, now))

RoomUnblacklistOp(roomid, userid) ==
  RoomLifted("roomUnblacklist", roomid, userid, BLACKLIST,
             RoomUnblacklist(roomIps, roomUserids, roomFile, users, roomid, userid, sharedIps,
                             FALSE, now))

RoomUnblacklistAllDid(roomid, r) ==
  /\ CanStep
  /\ roomIps' = r.roomIps /\ roomUserids' = r.roomUserids /\ roomFile' = r.roomFile
  /\ lastOp' = [op |-> "roomUnblacklistAll", room |-> roomid, pre |-> World, t |-> now,
                val |-> r.val, unblacklisted |-> r.unblacklisted]
  /\ Step("roomUnblacklistAll", roomid, BLACKLIST, 0)
  /\ UNCHANGED <<connection, cfloods, rangebans, now, globalStores, sharedIps, users, config, muteQueue>>

RoomUnblacklistAllOp(roomid) ==
  RoomUnblacklistAllDid(roomid,
                        RoomUnblacklistAll(roomIps, roomUserids, roomFile, users, roomid,
                                           sharedIps, now))

(***************************************************************************)
(* SpecLift: two sessions behind one address are banned from and           *)
(* blacklisted in a room and its sub-room, the punishments are lifted      *)
(* under either name, and time passes                                      *)
(***************************************************************************)
\* the room punishments asked for: <<room, session, expireTime>>
LiftBans == {<<ROOM_lobby, 1, 0>>, <<ROOM_lobby, 1, 1>>, <<ROOM_help, 2, 1>>}
LiftBlacklists == {<<ROOM_lobby, 2, 1>>, <<ROOM_help, 1, 0>>}
\* the lifts asked for: <<room, id>>
RoomLifts == {<<ROOM_lobby, ID_al>>, <<ROOM_lobby, ID_bo>>, <<ROOM_help, ID_bo>>}

InitLift ==
  /\ now = 0
  /\ ips = <<>> /\ userids = <<>> /\ roomIps = <<>> /\ roomUserids = <<>>
  /\ sharedIps = {}
  /\ users = << InRooms(U_al, {ROOM_lobby, ROOM_help}), InRooms(U_bo, {ROOM_lobby, ROOM_help}) >>
  /\ config = NoConfig /\ muteQueue = <<>>
  /\ file = <<>> /\ roomFile = <<>>
  /\ lastOp = [op |-> "init"]
  /\ history = <<>>
  /\ steps = 0
  /\ connection = NoConnection
  /\ cfloods = {} /\ rangebans = <<>>

NextLift ==
  \/ Pass
  \/ \E ban \in LiftBans : RoomBan(ban[1], ban[2], ban[3])
  \/ \E ban \in LiftBlacklists : RoomBlacklist(ban[1], ban[2], ban[3])
  \/ RoomBlacklistName(ROOM_lobby, ID_reserved, 0)
  \/ \E lift \in RoomLifts, punishType \in {ROOMBAN, BLACKLIST} :
        RoomUnpunishOp(lift[1], lift[2], punishType)
  \/ \E lift \in RoomLifts : RoomUnbanOp(lift[1], lift[2])
  \/ \E lift \in RoomLifts : RoomUnblacklistOp(lift[1], lift[2])
  \/ \E roomid \in {ROOM_lobby, ROOM_help} : RoomUnblacklistAllOp(roomid)
  \/ \E ui \in DOMAIN users : IsRoomBannedOp(ui, ROOM_help)

SpecLift == InitLift /\ [][NextLift]_vars

(***************************************************************************)
(* SpecLoad: the two loads on files of every content made of a few rows,   *)
(* well-formed, expired and malformed ones                                 *)
(***************************************************************************)
MaxRows == 2

\* a row of a file as renderEntry writes it, without its "\n"
FileRow(cols) == Join(cols, "\t") \o <<"\r">>

STR_5 == <<"5">>
STR_0 == <<"0">>
ROOMKEY_lobby_al == ROOM_lobby \o <<":">> \o ID_al
ROOMKEY_help_bo == ROOM_help \o <<":">> \o ID_bo

\* rows of punishments.tsv: two live rows, an expired one, the header, and
\* rows of two columns and of one
GlobalRowChoices ==
  {FileRow(<<LOCK, ID_al, IP_1111, STR_5, REASON>>), FileRow(<<BAN, ID_bo, IP_1112, STR_5>>),
   FileRow(<<LOCK, ID_al, IP_1111, STR_0>>),
   SubSeq(PUNISHMENT_HEADER, 1, Len(PUNISHMENT_HEADER) - 1),
   FileRow(<<LOCK, ID_al>>), FileRow(<<LOCK>>)}

\* rows of room-punishments.tsv: two live rows, a row whose second column
\* has no ':', and rows of two columns and of one
RoomRowChoices ==
  {FileRow(<<ROOMBAN, ROOMKEY_lobby_al, IP_1111, STR_5, REASON>>),
   FileRow(<<BLACKLIST, ROOMKEY_help_bo, IP_1112, STR_5>>),
   FileRow(<<ROOMBAN, ROOM_lobby \o ID_bo, IP_1112, STR_5>>),
   FileRow(<<ROOMBAN, ROOMKEY_lobby_al>>), FileRow(<<ROOMBAN>>)}

RECURSIVE FileOf(_)
\* the text of a file with these rows
FileOf(rows) == IF rows = <<>> THEN <<>> ELSE rows[1] \o <<"\n">> \o FileOf(Tail(rows))

\* the texts of the files with 1 .. n rows out of choices
FilesOf(choices, n) ==
  UNION {{FileOf(rows) : rows \in [1..k -> choices]} : k \in 1..n}

InitLoad ==
  /\ now = 0
  /\ ips = <<>> /\ userids = <<>> /\ roomIps = <<>> /\ roomUserids = <<>>
  /\ sharedIps = {}
  /\ users = <<>>
  /\ config = NoConfig /\ muteQueue = <<>>
  /\ \/ file \in FilesOf(GlobalRowChoices, MaxRows) /\ roomFile = <<>>
     \/ file = <<>> /\ roomFile \in FilesOf(RoomRowChoices, MaxRows)
  /\ lastOp = [op |-> "init"]
  /\ history = <<>>
  /\ steps = 0
  /\ connection = NoConnection
  /\ cfloods = {} /\ rangebans = <<>>

\* Punishments.loadPunishments()
LoadPunishmentsOp ==
  LET r == LoadPunishments([ips |-> ips, userids |-> userids, threw |-> FALSE], file, now)
  IN /\ CanStep
     /\ ips' = r.ips /\ userids' = r.userids
     /\ lastOp' = [op |-> "load", file |-> "global", data |-> file, t |-> now,
                   threw |-> r.threw]
     /\ Step("loadPunishments", <<>>, <<>>, 0)
     /\ UNCHANGED <<connection, cfloods, rangebans, now, file, roomStores, sharedIps, users, config, muteQueue>>

\* Punishments.loadRoomPunishments()
LoadRoomPunishmentsOp ==
  LET r == LoadRoomPunishments([ips |-> roomIps, userids |-> roomUserids, threw |-> FALSE],
                               roomFile, now)
  IN /\ CanStep
     /\ roomIps' = r.ips /\ roomUserids' = r.userids
     /\ lastOp' = [op |-> "load", file |-> "room", data |-> roomFile, t |-> now,
                   threw |-> r.threw]
     /\ Step("loadRoomPunishments", <<>>, <<>>, 0)
     /\ UNCHANGED <<connection, cfloods, rangebans, now, globalStores, roomFile, sharedIps, users, config, muteQueue>>

NextLoad ==
  \/ Pass
  \/ LoadPunishmentsOp
  \/ LoadRoomPunishmentsOp

SpecLoad == InitLoad /\ [][NextLoad]_vars

(***************************************************************************)
(* SpecAlts: three sessions whose addresses chain them (al and bo share    *)
(* one address, bo and cy another, so each is an alternate of its          *)
(* neighbour and the graph has cycles) are punished globally and in rooms  *)
(***************************************************************************)
U_cy == [NoUser EXCEPT !.name = <<"c","y">>, !.userid = ID_cy, !.named = TRUE,
                       !.ips = <<IP_1112>>, !.guestNum = "3"]

\* the sessions, also with bo as a trusted user
AltsUsers ==
  {<<InRooms(U_al, {ROOM_lobby}), InRooms(U_bo, {ROOM_lobby}), InRooms(U_cy, {ROOM_lobby})>>,
   <<InRooms(U_al, {ROOM_lobby}), InRooms([U_bo EXCEPT !.trusted = ID_bo], {ROOM_lobby}),
     InRooms(U_cy, {ROOM_lobby})>>}

InitAlts ==
  /\ now = 0
  /\ ips = <<>> /\ userids = <<>> /\ roomIps = <<>> /\ roomUserids = <<>>
  /\ sharedIps = {}
  /\ users \in AltsUsers
  /\ config = NoConfig /\ muteQueue = <<>>
  /\ file = <<>> /\ roomFile = <<>>
  /\ lastOp = [op |-> "init"]
  /\ history = <<>>
  /\ steps = 0
  /\ connection = NoConnection
  /\ cfloods = {} /\ rangebans = <<>>

NextAlts ==
  \/ Pass
  \/ \E ui \in DOMAIN users : Ban(ui, 0)
  \/ \E ui \in DOMAIN users, expireTime \in ExpireTimes : Lock(ui, expireTime)
  \/ \E ui \in DOMAIN users : RoomBan(ROOM_lobby, ui, 0)
  \/ \E ui \in DOMAIN users : RoomBlacklist(ROOM_staff, ui, 0)

SpecAlts == InitAlts /\ [][NextAlts]_vars

(***************************************************************************)
(* SpecRepeat: the monitor on an offline name.  The server starts either   *)
(* with empty room stores or with bo, who has no session, blacklisted by   *)
(* name in two public rooms; one session al is there as well               *)
(***************************************************************************)
RepeatConfig == [monitorminpunishments |-> 2, punishmentautolock |-> TRUE, dnsbl |-> FALSE]

EmptyWorld == [ips |-> <<>>, userids |-> <<>>, roomIps |-> <<>>, roomUserids |-> <<>>,
               file |-> <<>>, roomFile |-> <<>>, users |-> <<>>, log |-> <<>>,
               monitor |-> <<>>, cascade |-> <<>>]

\* the world after roomBlacklist(room, undefined, 0, 'bo', reason) at time 0
\* in each of these rooms
RECURSIVE BlacklistedIn(_, _)
BlacklistedIn(w, roomList) ==
  IF roomList = <<>> THEN w
  ELSE BlacklistedIn(
         RoomPunishName(w, roomList[1], ID_bo, <<BLACKLIST, ID_bo, BLACKLIST_DURATION, REASON>>,
                        RepeatConfig, <<>>, 0).w,
         Tail(roomList))

InitRepeat ==
  /\ now = 0
  /\ users = << InRooms(U_al, {ROOM_lobby, ROOM_help, ROOM_tours}) >>
  /\ sharedIps = {}
  /\ config = RepeatConfig /\ muteQueue = <<>>
  /\ \E start \in {BlacklistedIn(EmptyWorld, <<>>),
                   BlacklistedIn(EmptyWorld, <<ROOM_lobby, ROOM_help>>)} :
        /\ ips = start.ips /\ userids = start.userids
        /\ roomIps = start.roomIps /\ roomUserids = start.roomUserids
        /\ file = start.file /\ roomFile = start.roomFile
  /\ lastOp = [op |-> "init"]
  /\ history = <<>>
  /\ steps = 0
  /\ connection = NoConnection
  /\ cfloods = {} /\ rangebans = <<>>

NextRepeat ==
  \/ Pass
  \/ \E roomid \in {ROOM_lobby, ROOM_help, ROOM_tours} : RoomBlacklistName(roomid, ID_bo, 0)
  \/ \E roomid \in {ROOM_lobby, ROOM_tours} : RoomBan(roomid, 1, 0)
  \/ Lock(1, 0)
  \/ LockName(ID_bo, 0)

SpecRepeat == InitRepeat /\ [][NextRepeat]_vars

(***************************************************************************)
(* checkIp: the check made when a connection is given to a session, and    *)
(* the callbacks of the reverse lookup and of the blocklist query, which   *)
(* run in a later turn, after connection.user may have been given another  *)
(* value.                                                                  *)
(***************************************************************************)
STR_sharedip == <<"#","s","h","a","r","e","d","i","p"," ">>
STR_dnsbl == <<"#","d","n","s","b","l">>
HOST_isp == <<"h",".","i","s","p">>
EINVAL == "EINVAL"
ENOTFOUND == "ENOTFOUND"

\* lines 1132-1143 of checkIp, on the session it was called with
CheckIpPunished(user, punishment, sharedIpSet) ==
  IF punishment = None THEN user
  ELSE IF user.latestIp \in sharedIpSet
       THEN IF user.locked = <<>> /\ user.autoconfirmed = <<>>
            THEN [user EXCEPT !.semilocked = STR_sharedip \o punishment[2]]
            ELSE user
       ELSE IF punishment[1] = NAMELOCK
            THEN [user EXCEPT !.locked = punishment[2], !.namelocked = punishment[2]]
            ELSE [user EXCEPT !.locked = punishment[2]]

\* a callback that keeps to the session checkIp was called with
CallbackUserStale(conn) == conn.closure

\* user = connection.user || user (lines 1148, 1157, 1164)
CallbackUser(conn) == IF conn.user # 0 THEN conn.user ELSE conn.closure

\* if (!user.locked && !user.autoconfirmed) user.semilocked = '#dnsbl'
SemilockDnsbl(user) ==
  IF user.locked = <<>> /\ user.autoconfirmed = <<>>
  THEN [user EXCEPT !.semilocked = STR_dnsbl] ELSE user

\* if (host) user.latestHost = host
HostResolved(user, host) ==
  IF host # <<>> THEN [user EXCEPT !.latestHost = host] ELSE user

\* the callbacks checkIp leaves behind: the reverse lookup always, the
\* blocklist query if Config.dnsbl
CheckIpPending(dnsbl) == IF dnsbl THEN {"reverse", "query"} ELSE {"reverse"}

\* the synchronous part of checkIp, with the punishment ipSearch found
CheckIpFound(ui, ip, found) ==
  /\ CanStep
  /\ connection.called = 0
  /\ ips' = found.m
  /\ users' = [users EXCEPT ![ui] = CheckIpPunished(@, found.val, sharedIps)]
  /\ connection' = [ip |-> ip, user |-> ui, called |-> ui, closure |-> ui,
                    pending |-> CheckIpPending(config.dnsbl)]
  /\ lastOp' = [op |-> "checkIp", user |-> ui, ip |-> ip, pre |-> Pre, t |-> now,
                punishment |-> found.val]
  /\ Step("checkIp", users[ui].userid, <<>>, 0)
  /\ UNCHANGED <<cfloods, rangebans, now, userids, file, roomStores, sharedIps, config, muteQueue>>

\* Punishments.checkIp(user, connection), for a connection of this address
\* that has just been given to the session
CheckIp(ui, ip) == CheckIpFound(ui, ip, IpSearch(ips, ip, now))

\* connection.user = another session, or null when the connection is let go
Reassign(uj) ==
  /\ CanStep
  /\ connection.called # 0
  /\ uj # connection.user
  /\ connection' = [connection EXCEPT !.user = uj]
  /\ lastOp' = [op |-> "reassign", user |-> uj]
  /\ Step("reassign", IF uj = 0 THEN <<>> ELSE users[uj].userid, <<>>, 0)
  /\ UNCHANGED <<cfloods, rangebans, now, ips, userids, file, roomStores, sharedIps, users, config, muteQueue>>

\* what a callback is given: the host of a fulfilled reverse lookup (empty
\* for null), the code of a rejected one, the answer of the blocklist query
NoOutcome == [host |-> <<>>, code |-> "", isBlocked |-> FALSE]

\* a callback of checkIp has run for the session target
CheckIpCallback(callback, outcome, target, hostfilter, after) ==
  /\ callback \in connection.pending
  /\ users' = [users EXCEPT ![target] = after]
  /\ connection' = [connection EXCEPT !.closure = target, !.pending = @ \ {callback}]
  /\ lastOp' = [op |-> "checkIpCallback", callback |-> callback, outcome |-> outcome,
                attached |-> connection.user, called |-> connection.called,
                closure |-> connection.closure, target |-> target,
                hostfilter |-> hostfilter, pre |-> Pre]
  /\ UNCHANGED <<cfloods, rangebans, now, ips, userids, file, roomStores, sharedIps, config, muteQueue,
                 history, steps>>

\* Dnsbl.reverse(ip) is fulfilled with host (lines 1156-1160); the empty
\* host stands for null
ReverseResolved(host) ==
  CheckIpCallback("reverse", [NoOutcome EXCEPT !.host = host], CallbackUser(connection), CallbackUser(connection),
                  HostResolved(users[CallbackUser(connection)], host))

\* Dnsbl.reverse(ip) is rejected with this error code (lines 1145-1155); on
\* EINVAL the handler returns null and the next one (lines 1156-1160) runs
\* with it in the same turn, on any other code the error is thrown again
ReverseRejected(code) ==
  IF code = EINVAL
  THEN CheckIpCallback("reverse", [NoOutcome EXCEPT !.code = code], CallbackUser(connection), CallbackUser(connection),
                       HostResolved(SemilockDnsbl(users[CallbackUser(connection)]), <<>>))
  ELSE CheckIpCallback("reverse", [NoOutcome EXCEPT !.code = code], CallbackUser(connection), 0,
                       users[CallbackUser(connection)])

\* Dnsbl.query(connection.ip) is fulfilled with isBlocked (lines 1163-1170)
QueryDone(isBlocked) ==
  CheckIpCallback("query", [NoOutcome EXCEPT !.isBlocked = isBlocked], CallbackUser(connection), 0,
                  IF isBlocked THEN SemilockDnsbl(users[CallbackUser(connection)])
                  ELSE users[CallbackUser(connection)])

\* the sessions of the scenario, each with the address it was last seen on
CheckIpUsers ==
  <<[U_al EXCEPT !.latestIp = IP_1111], [U_bo EXCEPT !.latestIp = IP_1112]>>

InitCheckIp ==
  /\ now = 0
  /\ ips = <<>> /\ userids = <<>> /\ roomIps = <<>> /\ roomUserids = <<>>
  /\ sharedIps \in {{}, {IP_1112}}
  /\ users = CheckIpUsers
  /\ config \in {[NoConfig EXCEPT !.dnsbl = b] : b \in BOOLEAN}
  /\ muteQueue = <<>>
  /\ file = <<>> /\ roomFile = <<>>
  /\ lastOp = [op |-> "init"]
  /\ history = <<>>
  /\ steps = 0
  /\ connection = NoConnection
  /\ cfloods = {} /\ rangebans = <<>>

NextCheckIp ==
  \/ Pass
  \/ \E ui \in DOMAIN users : Lock(ui, 0)
  \/ \E ui \in DOMAIN users : Namelock(ui, 0)
  \/ LockRange(RANGE_111)
  \/ \E ui \in DOMAIN users, ip \in {IP_1111, IP_1112} : CheckIp(ui, ip)
  \/ \E uj \in 0..Len(users) : Reassign(uj)
  \/ \E host \in {<<>>, HOST_isp} : ReverseResolved(host)
  \/ \E code \in {EINVAL, ENOTFOUND} : ReverseRejected(code)
  \/ \E isBlocked \in BOOLEAN : QueryDone(isBlocked)

SpecCheckIp == InitCheckIp /\ [][NextCheckIp]_vars

(***************************************************************************)
(* checkIpBanned: the check made on a new connection, before a session     *)
(* exists.  Monitor.countConnection and the range checker made by          *)
(* Dnsbl.checker are the callers' code: what they answer is an input.      *)
(***************************************************************************)
STR_cflood == <<"#","c","f","l","o","o","d">>
False == <<"false">>

\* nothing is flooded
FloodedNever(floodTable, ip, flood) == FALSE

\* cfloods.has(ip) || (Monitor.countConnection(ip) && cfloods.add(ip))
Flooded(floodTable, ip, flood) == ip \in floodTable \/ flood

\* lines 1196-1202, with the punishment ipSearch found and the answer of
\* Punishments.checkRangeBanned(ip)
Banned(punishment, rangeBanned) ==
  IF punishment # None /\ punishment[1] = BAN
  THEN (IF punishment[2] = <<>> THEN False ELSE punishment[2])
  ELSE IF rangeBanned THEN STR_ipban ELSE False

\* lines 1196-1213
CheckIpBannedFound(floodTable, found, rangeBanned) ==
  [cfloods |-> floodTable, ips |-> found.m, hit |-> found.val,
   result |-> Banned(found.val, rangeBanned),
   notice |-> Banned(found.val, rangeBanned) # False]

\* Punishments.checkIpBanned(connection): the flood table, the address
\* store, the value returned and whether Monitor.notice was called
CheckIpBanned(floodTable, shared, ipMap, ip, flood, rangeBanned, t) ==
  IF Flooded(floodTable, ip, flood)
  THEN [cfloods |-> floodTable \cup {ip}, ips |-> ipMap, hit |-> None,
        result |-> STR_cflood, notice |-> FALSE]
  ELSE IF ip \in shared
  THEN [cfloods |-> floodTable, ips |-> ipMap, hit |-> None, result |-> False,
        notice |-> FALSE]
  ELSE CheckIpBannedFound(floodTable, IpSearch(ipMap, ip, t), rangeBanned)

CheckedIpBanned(ip, flood, rangeBanned, r) ==
  /\ CanStep
  /\ cfloods' = r.cfloods
  /\ ips' = r.ips
  /\ lastOp' = [op |-> "checkIpBanned", ip |-> ip, flood |-> flood,
                rangeBanned |-> rangeBanned, pre |-> Pre, cfloods |-> cfloods, t |-> now,
                hit |-> r.hit, result |-> r.result, notice |-> r.notice]
  /\ Step("checkIpBanned", ip, <<>>, 0)
  /\ UNCHANGED <<connection, rangebans, now, userids, file, roomStores, sharedIps, users,
                 config, muteQueue>>

\* a connection from ip: the counter answers flood; the range checker, which
\* matches nothing before loadBanlist has made it from a list of ranges,
\* answers rangeBanned
CheckIpBannedOp(ip, flood, rangeBanned) ==
  /\ rangeBanned => rangebans # <<>>
  /\ CheckedIpBanned(ip, flood, rangeBanned,
                     CheckIpBanned(cfloods, sharedIps, ips, ip, flood, rangeBanned, now))

ConnectIps == {IP_1111, IP_1112, IP_2111}

InitConnect ==
  /\ now = 0
  /\ ips = <<>> /\ userids = <<>> /\ roomIps = <<>> /\ roomUserids = <<>>
  /\ sharedIps \in {{}, {IP_1112}}
  /\ users = <<U_al, U_bo>>
  /\ config = NoConfig /\ muteQueue = <<>>
  /\ file = <<>> /\ roomFile = <<>>
  /\ lastOp = [op |-> "init"]
  /\ history = <<>>
  /\ steps = 0
  /\ connection = NoConnection
  /\ cfloods = {} /\ rangebans = <<>>

NextConnect ==
  \/ Pass
  \/ \E ui \in DOMAIN users : Ban(ui, 0)
  \/ \E ui \in DOMAIN users : Lock(ui, 0)
  \/ \E ui \in DOMAIN users : Namelock(ui, 0)
  \/ LockRange(RANGE_111)
  \/ BanRange(RANGE_111)
  \/ LoadBanlistOp
  \/ \E ip \in ConnectIps, flood \in BOOLEAN, rangeBanned \in BOOLEAN :
       CheckIpBannedOp(ip, flood, rangeBanned)

SpecConnect == InitConnect /\ [][NextConnect]_vars

\* the key a room store is asked with: the room id, or the Room object where
\* the caller passed one
RoomArgKey(roomid, asObject) == IF asObject THEN RoomObjectKey(roomid) ELSE roomid

\* lines 1222-1225 of checkNameInRoom: the lookups under the userid and the
\* autoconfirmed id
CheckNameLookup(M, user, key, t) ==
  IF NestedGet(M, key, user.userid, t).val = None /\ user.autoconfirmed # <<>>
  THEN NestedGet(NestedGet(M, key, user.userid, t).m, key, user.autoconfirmed, t)
  ELSE NestedGet(M, key, user.userid, t)

\* lines 1226-1230 on what the call for the parent room returned, which is
\* true, false or undefined and not a punishment: true[0] is undefined
CheckNameInRoomParent(r) ==
  IF r.val = "throws" THEN r
  ELSE IF r.val = "true" THEN [r EXCEPT !.val = "undefined"]
  ELSE [r EXCEPT !.val = "false"]

RECURSIVE CheckNameInRoom(_, _, _, _, _, _)
\* lines 1226-1230 of checkNameInRoom on the punishment the lookups found
\* (g); the call for the parent is given the Room object Rooms(roomid).parent
CheckNameInRoomFound(g, user, roomid, asObject, t, takesRoom) ==
  IF g.val # None
  THEN [roomUserids |-> g.m,
        val |-> IF g.val[1] \in {ROOMBAN, BLACKLIST} THEN "true" ELSE "undefined"]
  ELSE IF asObject /\ ~takesRoom THEN [roomUserids |-> g.m, val |-> "throws"]
  ELSE IF ParentOf(roomid) # <<>>
  THEN CheckNameInRoomParent(CheckNameInRoom(g.m, user, ParentOf(roomid), TRUE, t, takesRoom))
  ELSE [roomUserids |-> g.m, val |-> "false"]

\* Punishments.checkNameInRoom(user, roomid): the room identity store and
\* the value returned ("throws" for a TypeError).  asObject: roomid is a Room
\* object; takesRoom: Rooms() returns a Room it is given (else undefined)
CheckNameInRoom(M, user, roomid, asObject, t, takesRoom) ==
  CheckNameInRoomFound(CheckNameLookup(M, user, RoomArgKey(roomid, asObject), t),
                       user, roomid, asObject, t, takesRoom)

\* lines 1241-1249 of checkNewNameInRoom, with the punishment found in the
\* room or returned by the call for the parent room (r)
CheckNewNameLeave(r, roomid, asObject, takesRoom) ==
  IF r.threw \/ r.val = None THEN r
  ELSE IF r.val[1] \notin {ROOMBAN, BLACKLIST} THEN [r EXCEPT !.val = None]
  ELSE IF asObject /\ ~takesRoom THEN [r EXCEPT !.val = None, !.threw = TRUE]
  ELSE [r EXCEPT !.left = @ \cup {roomid}]

RECURSIVE CheckNewNameInRoom(_, _, _, _, _, _)
\* lines 1239-1240 on the punishment the lookup found (g)
CheckNewNameFound(g, userid, roomid, asObject, t, takesRoom) ==
  IF g.val # None THEN [roomUserids |-> g.m, val |-> g.val, left |-> {}, threw |-> FALSE]
  ELSE IF asObject /\ ~takesRoom
  THEN [roomUserids |-> g.m, val |-> None, left |-> {}, threw |-> TRUE]
  ELSE IF ParentOf(roomid) # <<>>
  THEN CheckNewNameInRoom(g.m, userid, ParentOf(roomid), TRUE, t, takesRoom)
  ELSE [roomUserids |-> g.m, val |-> None, left |-> {}, threw |-> FALSE]

\* Punishments.checkNewNameInRoom(user, userid, roomid): the room identity
\* store, the punishment returned (None for undefined) and the rooms the
\* user was made to leave
CheckNewNameInRoom(M, userid, roomid, asObject, t, takesRoom) ==
  CheckNewNameLeave(
    CheckNewNameFound(NestedGet(M, RoomArgKey(roomid, asObject), userid, t),
                      userid, roomid, asObject, t, takesRoom),
    roomid, asObject, takesRoom)

CheckedNameInRoom(ui, roomid, r) ==
  /\ CanStep
  /\ roomUserids' = r.roomUserids
  /\ lastOp' = [op |-> "checkNameInRoom", user |-> users[ui], room |-> roomid, pre |-> World,
                t |-> now, val |-> r.val]
  /\ Step("checkNameInRoom", users[ui].userid, <<>>, 0)
  /\ UNCHANGED <<connection, cfloods, rangebans, now, globalStores, roomIps, roomFile,
                 sharedIps, users, config, muteQueue>>

CheckNameInRoomOp(ui, roomid, takesRoom) ==
  CheckedNameInRoom(ui, roomid,
                    CheckNameInRoom(roomUserids, users[ui], roomid, FALSE, now, takesRoom))

CheckedNewNameInRoom(ui, userid, roomid, r) ==
  /\ CanStep
  /\ roomUserids' = r.roomUserids
  /\ users' = [users EXCEPT ![ui].inRooms = @ \ r.left]
  /\ lastOp' = [op |-> "checkNewNameInRoom", user |-> users[ui], session |-> ui,
                userid |-> userid, room |-> roomid, pre |-> World, t |-> now,
                val |-> r.val, left |-> r.left, threw |-> r.threw]
  /\ Step("checkNewNameInRoom", userid, <<>>, 0)
  /\ UNCHANGED <<connection, cfloods, rangebans, now, globalStores, roomIps, roomFile,
                 sharedIps, config, muteQueue>>

CheckNewNameInRoomOp(ui, userid, roomid, takesRoom) ==
  CheckedNewNameInRoom(ui, userid, roomid,
                       CheckNewNameInRoom(roomUserids, userid, roomid, FALSE, now, takesRoom))

(***************************************************************************)
(* SpecKinds: the rooms of SpecRoom, with room punishments of a kind that   *)
(* a chat plugin has added to Punishments.roomPunishmentTypes, and the      *)
(* checks made on names                                                     *)
(***************************************************************************)
GIVEAWAYBAN == <<"G","I","V","E","A","W","A","Y","B","A","N">>

\* Punishments.roomPunish(room, user, [punishType, userid, expireTime, reason])
\* called by a plugin for a kind of its own
RoomPunishOp(roomid, ui, punishType, expireTime) ==
  RoomPunishedBy("roomPunish", roomid, [session |-> ui, id |-> users[ui].userid],
                 <<punishType, GetLastId(users[ui]), expireTime, REASON>>,
                 RoomPunish(World, roomid, ui,
                            <<punishType, GetLastId(users[ui]), expireTime, REASON>>,
                            config, muteQueue, now))

InitKinds ==
  /\ now = 0
  /\ ips = <<>> /\ userids = <<>> /\ roomIps = <<>> /\ roomUserids = <<>>
  /\ sharedIps \in {{}, {IP_1111}}
  /\ users = << InRooms(U_al, {ROOM_lobby, ROOM_help, ROOM_sub}),
                InRooms(U_bo, {ROOM_lobby, ROOM_help, ROOM_sub}) >>
  /\ config = NoConfig /\ muteQueue = <<>>
  /\ file = <<>> /\ roomFile = <<>>
  /\ lastOp = [op |-> "init"]
  /\ history = <<>>
  /\ steps = 0
  /\ connection = NoConnection
  /\ cfloods = {} /\ rangebans = <<>>

NextKinds ==
  \/ Pass
  \/ \E roomid \in {ROOM_lobby, ROOM_help}, ui \in DOMAIN users : RoomBan(roomid, ui, 0)
  \/ \E roomid \in {ROOM_lobby, ROOM_help}, ui \in DOMAIN users : RoomBlacklist(roomid, ui, 0)
  \/ \E roomid \in {ROOM_lobby, ROOM_help}, ui \in DOMAIN users :
        RoomPunishOp(roomid, ui, GIVEAWAYBAN, now + ROOMBAN_DURATION)
  \/ \E ui \in DOMAIN users, roomid \in {ROOM_help, ROOM_sub} : IsRoomBannedOp(ui, roomid)
  \/ \E ui \in DOMAIN users, roomid \in {ROOM_help, ROOM_sub}, takesRoom \in BOOLEAN :
        CheckNameInRoomOp(ui, roomid, takesRoom)
  \/ \E ui \in DOMAIN users, userid \in {ID_al, ID_bo}, roomid \in {ROOM_help, ROOM_sub},
        takesRoom \in BOOLEAN :
        CheckNewNameInRoomOp(ui, userid, roomid, takesRoom)

SpecKinds == InitKinds /\ [][NextKinds]_vars

(***************************************************************************)
(* unlock: the lock of a session and of the sessions locked with it is     *)
(* cleared, and the LOCK entries of the name are lifted                    *)
(***************************************************************************)
\* lines 710-725 of unlock: does the session found by the name get cleared
UnlockClears(sessions, ui) ==
  ui # 0 /\ sessions[ui].locked # <<>> /\ sessions[ui].namelocked = <<>>

\* id = toId(name), or user.locked of the session that is cleared
UnlockId(sessions, ui, name) ==
  IF UnlockClears(sessions, ui) THEN sessions[ui].locked ELSE ToId(name)

\* the sessions whose flags lines 712-713 and 718-721 reset: the session
\* itself, and unless the id is a reserved one every session locked under it
UnlockCleared(sessions, ui, id) ==
  IF UnlockClears(sessions, ui)
  THEN {i \in DOMAIN sessions : i = ui \/ (id[1] # "#" /\ sessions[i].locked = id)}
  ELSE {}

\* success: the last name of the session, then of the others in the order
\* of Users.users, then name if only unpunish did something, then id
\* unless a name of the list has it as its id
UnlockSuccess(sessions, ui, id, cleared, name, lifted) ==
  LET others == SelectSeq([i \in DOMAIN sessions |-> i], LAMBDA i : i \in cleared /\ i # ui)
      names == (IF cleared # {} THEN <<sessions[ui].name>> ELSE <<>>)
               \o [k \in DOMAIN others |-> sessions[others[k]].name]
      success == IF names = <<>> /\ lifted THEN <<name>> ELSE names
  IN IF success = <<>> THEN <<>>
     ELSE IF \E k \in DOMAIN success : ToId(success[k]) = id THEN success
     ELSE Append(success, id)

\* unlock with the session found (ui), the id, and what unpunish(name, 'LOCK')
\* has done (r); val <<>> stands for undefined
UnlockDone(sessions, ui, id, cleared, name, r) ==
  [users |-> [i \in DOMAIN sessions |->
                IF i \in cleared
                THEN [sessions[i] EXCEPT !.locked = <<>>, !.namelocked = <<>>]
                ELSE sessions[i]],
   ips |-> r.ips, userids |-> r.userids, file |-> r.file,
   id |-> id, cleared |-> cleared,
   val |-> UnlockSuccess(sessions, ui, id, cleared, name, r.success)]

\* Punishments.unlock(name)
Unlock(sessions, ipMap, useridMap, text, name, t) ==
  UnlockDone(sessions, UsersGet(ToId(name)),
             UnlockId(sessions, UsersGet(ToId(name)), name),
             UnlockCleared(sessions, UsersGet(ToId(name)),
                           UnlockId(sessions, UsersGet(ToId(name)), name)),
             name, Unpunish(ipMap, useridMap, text, name, LOCK, t))

Unlocked(name, r) ==
  /\ CanStep
  /\ ips' = r.ips /\ userids' = r.userids /\ file' = r.file
  /\ users' = r.users
  /\ lastOp' = [op |-> "unlock", name |-> name, pre |-> Pre, t |-> now,
                id |-> r.id, cleared |-> r.cleared, val |-> r.val]
  /\ Step("unlock", name, LOCK, 0)
  /\ UNCHANGED <<connection, cfloods, rangebans, now, roomStores, sharedIps, config, muteQueue>>

UnlockOp(name) == Unlocked(name, Unlock(users, ips, userids, file, name, now))

(***************************************************************************)
(* SpecUnlock: a session is locked, another session comes in from the      *)
(* locked address or is an alt of the first, and locks are lifted by name  *)
(***************************************************************************)
\* Al and Bo share an address, or Bo has one of its own
UnlockUsers ==
  { CheckIpUsers,
    <<[U_al EXCEPT !.latestIp = IP_1111],
      [U_bo EXCEPT !.ips = <<IP_1112>>, !.latestIp = IP_1112]>> }

InitUnlock ==
  /\ now = 0
  /\ ips = <<>> /\ userids = <<>> /\ roomIps = <<>> /\ roomUserids = <<>>
  /\ sharedIps = {}
  /\ users \in UnlockUsers
  /\ config = NoConfig /\ muteQueue = <<>>
  /\ file = <<>> /\ roomFile = <<>>
  /\ lastOp = [op |-> "init"]
  /\ history = <<>>
  /\ steps = 0
  /\ connection = NoConnection
  /\ cfloods = {} /\ rangebans = <<>>

NextUnlock ==
  \/ Pass
  \/ \E ui \in DOMAIN users, expireTime \in ExpireTimes : Lock(ui, expireTime)
  \/ \E ui \in DOMAIN users : Namelock(ui, 0)
  \/ LockRange(RANGE_111)
  \/ \E ui \in DOMAIN users, ip \in {IP_1111, IP_1112} : CheckIp(ui, ip)
  \/ \E ui \in DOMAIN users : UnlockOp(users[ui].name)

SpecUnlock == InitUnlock /\ [][NextUnlock]_vars

(***************************************************************************)
(* SpecPairs: two sessions, one of them seen on two addresses, are banned  *)
(* from and muted in public rooms, a session is namelocked and so loses    *)
(* its name, and the room punishments of a session or of a name are listed *)
(***************************************************************************)
\* the options objects getRoomPunishments is called with
PairOptions == {[publicOnly |-> p, checkIps |-> c] : p \in BOOLEAN, c \in BOOLEAN}

\* the users asked about: a session (its position and toId of it) or a name
PairWhos ==
  {[session |-> i, id |-> users[i].userid] : i \in DOMAIN users}
  \cup {[session |-> 0, id |-> ID_bo]}

\* what the lookups of getRoomPunishments leave behind, and the list returned
GotRoomPunishments(who, options, r) ==
  /\ CanStep
  /\ roomIps' = r.roomIps /\ roomUserids' = r.roomUserids
  /\ lastOp' = [op |-> "getRoomPunishments", who |-> who, options |-> options,
                pre |-> World, t |-> now, list |-> r.list]
  /\ Step("getRoomPunishments", who.id, <<>>, 0)
  /\ UNCHANGED <<connection, cfloods, rangebans, now, globalStores, roomFile, sharedIps, users, config, muteQueue>>

\* Punishments.getRoomPunishments(user, options)
GetRoomPunishmentsOp(who, options) ==
  GotRoomPunishments(who, options,
                     GetRoomPunishments(roomIps, roomUserids, users, muteQueue, who, options, now))

InitPairs ==
  /\ now = 0
  /\ ips = <<>> /\ userids = <<>> /\ roomIps = <<>> /\ roomUserids = <<>>
  /\ sharedIps = {}
  /\ users = << InRooms(U_al, {ROOM_lobby, ROOM_tours}), InRooms(U_bo, {ROOM_lobby, ROOM_tours}) >>
  /\ config = [monitorminpunishments |-> 2, punishmentautolock |-> FALSE, dnsbl |-> FALSE]
  /\ muteQueue = <<>>
  /\ file = <<>> /\ roomFile = <<>>
  /\ lastOp = [op |-> "init"]
  /\ history = <<>>
  /\ steps = 0
  /\ connection = NoConnection
  /\ cfloods = {} /\ rangebans = <<>>

NextPairs ==
  \/ Pass
  \/ \E roomid \in {ROOM_lobby, ROOM_tours} : RoomBan(roomid, 2, 0)
  \/ \E roomid \in {ROOM_lobby, ROOM_tours}, ui \in DOMAIN users : Mute(roomid, ui)
  \/ Namelock(2, 0)
  \/ \E who \in PairWhos, options \in PairOptions : GetRoomPunishmentsOp(who, options)

SpecPairs == InitPairs /\ [][NextPairs]_vars

(***************************************************************************)
(* Claims                                                                  *)
(***************************************************************************)
Stale(punishment, t) == punishment # None /\ punishment[3] <= t

\* C1 (lazy eviction): no read of either store class (get, has, forEach,
\* nestedGet, nestedHas, nestedForEach) delivers a punishment whose expiry
\* is at or before the time of the read; an entry found stale is gone from
\* the store when the read returns, and has/nestedHas on its key is false.
C1_LazyEviction ==
  /\ lastOp.op = "get" =>
        /\ lastOp.val # None => ~Stale(lastOp.val, lastOp.t)
        /\ Stale(lastOp.pre, lastOp.t) =>
              /\ lastOp.val = None
              /\ ~MapHas(ips, lastOp.key)
              /\ ~PHas(ips, lastOp.key, now).val
  /\ lastOp.op = "has" =>
        /\ lastOp.found => ~Stale(lastOp.pre, lastOp.t)
        /\ Stale(lastOp.pre, lastOp.t) =>
              /\ ~lastOp.found
              /\ ~MapHas(ips, lastOp.key)
              /\ ~PHas(ips, lastOp.key, now).val
  /\ lastOp.op = "forEach" =>
        /\ \A i \in DOMAIN lastOp.seen : ~Stale(lastOp.seen[i].v, lastOp.t)
        /\ \A i \in DOMAIN lastOp.pre : Stale(lastOp.pre[i].v, lastOp.t) =>
              /\ ~MapHas(ips, lastOp.pre[i].k)
              /\ ~PHas(ips, lastOp.pre[i].k, now).val
  /\ lastOp.op = "nestedGet" =>
        /\ lastOp.val # None => ~Stale(lastOp.val, lastOp.t)
        /\ Stale(lastOp.pre, lastOp.t) =>
              /\ lastOp.val = None
              /\ ~MapHas(MapGet(roomUserids, lastOp.room), lastOp.key)
              /\ ~NestedHas(roomUserids, lastOp.room, lastOp.key, now).val
  /\ lastOp.op = "nestedHas" =>
        /\ lastOp.found => ~Stale(lastOp.pre, lastOp.t)
        /\ Stale(lastOp.pre, lastOp.t) =>
              /\ ~lastOp.found
              /\ ~MapHas(MapGet(roomUserids, lastOp.room), lastOp.key)
              /\ ~NestedHas(roomUserids, lastOp.room, lastOp.key, now).val
  /\ lastOp.op = "nestedForEach" =>
        /\ \A i \in DOMAIN lastOp.seen : ~Stale(lastOp.seen[i].v, lastOp.t)
        /\ \A i \in DOMAIN lastOp.pre : \A j \in DOMAIN lastOp.pre[i].v :
              Stale(lastOp.pre[i].v[j].v, lastOp.t) =>
                /\ ~MapHas(MapGet(roomUserids, lastOp.pre[i].k), lastOp.pre[i].v[j].k)
                /\ ~NestedHas(roomUserids, lastOp.pre[i].k, lastOp.pre[i].v[j].k, now).val

\* a nestedForEach that met a stale entry and handed over a live one
C1_Witness ==
  /\ lastOp.op = "nestedForEach"
  /\ lastOp.seen # <<>>
  /\ \E i \in DOMAIN lastOp.pre : \E j \in DOMAIN lastOp.pre[i].v :
        Stale(lastOp.pre[i].v[j].v, lastOp.t)

\* the live entries of the two global stores, as [k, v] records
GlobalEntries(ipMap, useridMap, t) ==
  Range(PForEach(ipMap, t)) \cup Range(PForEach(useridMap, t))

\* the live entries recorded for the identity id
EntriesOf(ipMap, useridMap, id, t) ==
  {e \in GlobalEntries(ipMap, useridMap, t) : e.v[2] = id}

\* C2: when punish is applied to an identity that has a live global entry e,
\* the entry stored for that identity afterwards expires no earlier than e
\* and is of a kind no lower than e's in the order LOCK < NAMELOCK < BAN.
C2_EscalationMonotone ==
  lastOp.op = "punish" =>
    LET id == lastOp.asked[2]
        e == PGet(lastOp.pre.userids, id, lastOp.t).val
        after == MapGet(userids, id)
    IN e # None =>
         /\ after # None
         /\ ~NumLt(after[3], e[3])
         /\ TypeIndex(after[1]) >= TypeIndex(e[1])

\* nothing but sessions going away and time passing happens at the
\* positions from..to of history
Quiet(from, to) == \A k \in from..to : history[k].op \in {"destroy", "tick"}

\* position j of history is a lock, with an earlier expiry, of the identity
\* that position i banned when nothing had been recorded yet
BanThenLock(i, j) ==
  /\ i < j
  /\ history[i].op = "ban" /\ Quiet(1, i - 1)
  /\ history[j].op = "lock" /\ Quiet(i + 1, j - 1)
  /\ history[j].id = history[i].id
  /\ history[j].expireTime < history[i].expireTime

\* C3: after a BAN of an identity, a LOCK of the same identity with an
\* earlier expiry leaves every global entry of that identity a BAN with the
\* expiry of the ban; and after unpunish(identity, 'BAN') has removed it,
\* search(identity) finds no key.
C3_BanLockUnban ==
  LET n == Len(history) IN
  /\ \A i \in 1..n :
       BanThenLock(i, n) =>
         LET entries == EntriesOf(ips, userids, history[i].id, now)
         IN /\ entries # {}
            /\ \A e \in entries : e.v[1] = BAN /\ e.v[3] = history[i].expireTime
  /\ \A i, j \in 1..n :
       (/\ BanThenLock(i, j) /\ j < n /\ Quiet(j + 1, n - 1)
        /\ history[n].op = "unpunish" /\ history[n].punishType = BAN
        /\ history[n].id = history[i].id)
       => Search(ips, userids, roomIps, roomUserids, history[i].id, now).keys = <<>>

\* the id starts with the reserved marker
Reserved(id) == Len(id) > 0 /\ id[1] = "#"

\* what loadPunishments makes of the table that savePunishments writes now
Reloaded ==
  LoadPunishments([ips |-> <<>>, userids |-> <<>>, threw |-> FALSE],
                  SavePunishments(ips, userids, now), now)

\* C5: saving the global table and loading it into empty stores gives every
\* unexpired punishment back with the same kind, primaryId, expiresAt and
\* reason under exactly the same keys, none lost and none added (stated for
\* the punishments that the table holds, those without the reserved marker).
C5_RoundTrip ==
  LET live == {e \in GlobalEntries(ips, userids, now) : ~Reserved(e.v[2])}
      loaded == Range(Reloaded.ips) \cup Range(Reloaded.userids)
  IN /\ ~Reloaded.threw
     /\ {e.k : e \in loaded} = {e.k : e \in live}
     /\ \A e \in live : \E l \in loaded : l.k = e.k /\ l.v = e.v

\* the id that unpunish resolves its argument to
ResolvedId(useridMap, idArg, t) ==
  LET punishment == PGet(useridMap, ToId(idArg), t).val
  IN IF punishment # None THEN punishment[2] ELSE ToId(idArg)

\* what the claim says of unpunish, with `before` the entries of the two
\* stores that the call may not touch unless they match
UnpunishContract(beforeIps, beforeUserids) ==
  LET id == ResolvedId(lastOp.pre.userids, lastOp.id, lastOp.t)
      match(e) == e.v[2] = id /\ e.v[1] = lastOp.punishType
      live == GlobalEntries(lastOp.pre.ips, lastOp.pre.userids, lastOp.t)
      deleted == \E e \in live : match(e)
  IN /\ Range(ips) = {e \in beforeIps : ~match(e)}
     /\ Range(userids) = {e \in beforeUserids : ~match(e)}
     /\ lastOp.resolved = id
     /\ lastOp.success = deleted
     /\ file = IF deleted THEN SavePunishments(ips, userids, lastOp.t) ELSE lastOp.pre.file

\* C9 as stated: unpunish deletes exactly the live entries of the resolved
\* id and the kind, and leaves every other entry of the two stores as it was;
\* it returns the resolved id and rewrites the table if something was
\* deleted, and otherwise returns false and writes nothing.
C9_UnpunishExact ==
  lastOp.op = "unpunish" => UnpunishContract(Range(lastOp.pre.ips), Range(lastOp.pre.userids))

\* C9: unpunish deletes the live entries of the resolved id and the kind and
\* leaves every other live entry as it was (entries that have expired go as
\* well); it returns the resolved id and rewrites the table if something was
\* deleted, and otherwise returns false and writes nothing.
C9_UnpunishFrame ==
  lastOp.op = "unpunish" =>
    UnpunishContract(Range(PForEach(lastOp.pre.ips, lastOp.t)),
                     Range(PForEach(lastOp.pre.userids, lastOp.t)))

\* an unpunish, given an alias of the id, has deleted entries and left others
C9_Witness ==
  /\ lastOp.op = "unpunish" /\ lastOp.success
  /\ lastOp.resolved # lastOp.id
  /\ ips # <<>> \/ userids # <<>>

\* the rows of the global table
FileRows == SelectSeq(Split(file, "\n"), LAMBDA row : row # <<>>)

\* C10: no row of the global table, appended or rewritten, has a primaryId
\* that starts with '#'.
C10_NoReservedRows ==
  \A i \in DOMAIN FileRows :
    LET cols == Split(FileRows[i], "\t")
    IN Len(cols) >= 2 /\ ~Reserved(cols[2])

\* the table has been rewritten while the stores hold a punishment with the
\* reserved marker
C10_Witness ==
  /\ lastOp.op = "unpunish" /\ lastOp.success
  /\ Len(FileRows) >= 1
  /\ \E e \in Range(ips) \cup Range(userids) : Reserved(e.v[2])

\* a punish of a session that is alone, has no trusted id, found the stores
\* empty and left a punishment that has not expired
CascadeCase ==
  /\ lastOp.op = "punish"
  /\ lastOp.pre.ips = <<>> /\ lastOp.pre.userids = <<>>
  /\ Len(lastOp.pre.users) = 1
  /\ lastOp.user.trusted = <<>>
  /\ NumLt(lastOp.t, lastOp.punishment[3])

\* the keys of the global stores are exactly n, search(primaryId) returns
\* each of them once, and each holds a punishment with that primaryId
CascadeKeys(n) ==
  LET keys == MapKeys(ips) \cup MapKeys(userids)
      id == lastOp.punishment[2]
      found == Search(ips, userids, roomIps, roomUserids, id, lastOp.t).keys
  IN /\ Len(ips) + Len(userids) = n
     /\ Cardinality(keys) = n
     /\ Len(found) = n /\ Range(found) = keys
     /\ \A e \in Range(ips) \cup Range(userids) : e.v[2] = id

\* C4 as stated: punish of an identity with N addresses, a userid and an
\* autoconfirmed id and no alternate sessions leaves exactly N+2 keys (N+1
\* without an autoconfirmed id), which search(primaryId) returns, each with
\* that primaryId.
C4_KeyCount ==
  CascadeCase =>
    CascadeKeys(Len(lastOp.user.ips) + IF lastOp.user.autoconfirmed # <<>> THEN 2 ELSE 1)

\* the ids that the cascade stores the punishment of a session under
CascadeIds(user) ==
  LET lastId == IF user.named \/ user.prevId = <<>> THEN user.userid ELSE user.prevId
  IN {id \in {lastId} : ~(Len(id) >= 5 /\ SubSeq(id, 1, 5) = <<"g","u","e","s","t">>)}
     \cup {id \in {user.autoconfirmed} : id # <<>>}

\* C4: punish of an identity with N addresses and no alternate sessions leaves
\* exactly N+K keys, K the number of distinct ids among its last userid
\* (unless that is a guest id) and its autoconfirmed id (if it has one);
\* search(primaryId) returns exactly those keys, each with that primaryId.
C4_KeyCountDistinct ==
  CascadeCase =>
    /\ CascadeKeys(Len(lastOp.user.ips) + Cardinality(CascadeIds(lastOp.user)))
    /\ MapKeys(userids) = CascadeIds(lastOp.user)
    /\ MapKeys(ips) = Range(lastOp.user.ips)

\* a named session with two addresses and an autoconfirmed id of its own,
\* and one with another autoconfirmed id, have been punished
C4_Witness ==
  /\ CascadeCase
  /\ Len(lastOp.user.ips) = 2
  /\ lastOp.user.autoconfirmed = ID_bo
  /\ Len(userids) = 2

\* the keys 'a.b.c.d', 'a.b.c.*', 'a.b.*', 'a.*' of a dotted address
Probes(ip) ==
  LET parts == Split(ip, ".")
  IN <<ip>> \o [i \in 1..(Len(parts) - 1) |->
                 Join(SubSeq(parts, 1, Len(parts) - i), ".") \o <<".","*">>]

\* the live punishment stored in m under key k, None if there is none
LiveAt(m, k, t) ==
  IF \E e \in Range(m) : e.k = k /\ t < e.v[3]
  THEN (CHOOSE e \in Range(m) : e.k = k /\ t < e.v[3]).v
  ELSE None

\* the first of the keys that holds a live punishment in m
FirstLive(m, keyList, t) ==
  LET hits == SelectSeq(keyList, LAMBDA k : LiveAt(m, k, t) # None)
  IN IF hits = <<>> THEN None ELSE LiveAt(m, hits[1], t)

\* C6: for a dotted address a.b.c.d ipSearch returns the live entry under the
\* first of 'a.b.c.d', 'a.b.c.*', 'a.b.*', 'a.*' that holds one, and absent
\* if none does; a store holding only '1.1.1.*' matches 1.1.1.1, 1.1.1.2 and
\* 1.1.1.12 and does not match 1.1.2.1.
C6_PrefixMatch ==
  lastOp.op = "ipSearch" =>
    /\ lastOp.val = FirstLive(lastOp.pre.ips, Probes(lastOp.ip), lastOp.t)
    /\ MapKeys(PForEach(lastOp.pre.ips, lastOp.t)) = {RANGE_111} =>
         (lastOp.val # None <=> lastOp.ip \in {IP_1111, IP_1112, IP_11112})

\* a query has fallen through to the widest range while narrower keys of
\* other addresses were stored
C6_Witness ==
  /\ lastOp.op = "ipSearch" /\ lastOp.ip = IP_1211
  /\ lastOp.val # None
  /\ Len(lastOp.pre.ips) >= 2

\* the live punishment a room store holds for a key at time t, else None
LiveIn(M, roomid, key, t) ==
  LET punishment == MapGet(MapGet(M, roomid), key)
  IN IF punishment # None /\ ~Stale(punishment, t) THEN punishment ELSE None

\* the live room punishments of a user in one room, in the order userid,
\* autoconfirmed id, addresses
UserHits(w, user, roomid, t) ==
  LET idKeys == IF user.autoconfirmed # <<>> THEN <<user.userid, user.autoconfirmed>>
                ELSE <<user.userid>>
      byId == [i \in DOMAIN idKeys |->
                 [key |-> idKeys[i], ip |-> FALSE, v |-> LiveIn(w.roomUserids, roomid, idKeys[i], t)]]
      byIp == [i \in DOMAIN user.ips |->
                 [key |-> user.ips[i], ip |-> TRUE, v |-> LiveIn(w.roomIps, roomid, user.ips[i], t)]]
  IN SelectSeq(byId \o byIp, LAMBDA hit : hit.v # None)

RECURSIVE AncestorChain(_)
\* the parent of a room, the parent of that, and so on
AncestorChain(roomid) ==
  IF Rooms(roomid).parent = <<>> THEN <<>>
  ELSE <<Rooms(roomid).parent>> \o AncestorChain(Rooms(roomid).parent)

\* the ancestors of the room asked about in which the user has a live entry
BannedAncestors ==
  SelectSeq(AncestorChain(lastOp.room),
            LAMBDA a : UserHits(lastOp.pre, lastOp.user, a, lastOp.t) # <<>>)

\* isRoomBanned was asked about a room in which the user has no live entry
\* while an ancestor holds a live ROOMBAN or BLACKLIST for the user
InheritCase ==
  /\ lastOp.op = "isRoomBanned"
  /\ UserHits(lastOp.pre, lastOp.user, lastOp.room, lastOp.t) = <<>>
  /\ BannedAncestors # <<>>

MinPunishments ==
  IF config.monitorminpunishments = NoNumber THEN 3 ELSE config.monitorminpunishments

\* the mute entries of a room that the monitor counts for the user of the
\* last room punishment (none for a user given by name)
CountedMutes(roomid) ==
  IF lastOp.who.session = 0 THEN <<>>
  ELSE SelectSeq(MapGet(muteQueue, roomid),
                 LAMBDA entry :
                   \/ entry.userid = lastOp.who.id
                   \/ entry.guestNum = lastOp.pre.users[lastOp.who.session].guestNum
                   \/ /\ lastOp.pre.users[lastOp.who.session].autoconfirmed # <<>>
                      /\ entry.autoconfirmed = lastOp.pre.users[lastOp.who.session].autoconfirmed)

\* the points the claim gives the kinds
ClaimPoints(punishType) ==
  CASE punishType = MUTE -> 2
    [] punishType = BLACKLIST -> 3
    [] punishType = ROOMBAN -> 4
    [] OTHER -> 0

\* what one room adds to the count and to the points of the user
RoomTally(room) ==
  LET punishment == LiveIn(roomUserids, room.id, lastOp.who.id, lastOp.t)
  IN IF room.isPrivate \/ room.isPersonal \/ room.battle THEN [count |-> 0, points |-> 0]
     ELSE IF punishment # None THEN [count |-> 1, points |-> ClaimPoints(punishment[1])]
     ELSE [count |-> Len(CountedMutes(room.id)),
           points |-> ClaimPoints(MUTE) * Len(CountedMutes(room.id))]

RECURSIVE TallyFrom(_)
TallyFrom(i) ==
  IF i > Len(ChatRooms) THEN [count |-> 0, points |-> 0]
  ELSE [count |-> RoomTally(ChatRooms[i]).count + TallyFrom(i + 1).count,
        points |-> RoomTally(ChatRooms[i]).points + TallyFrom(i + 1).points]

Tally == TallyFrom(1)

\* the last operation recorded one room punishment and ran the monitor at
\* most once
RoomPunishCase == lastOp.op = "roomPunish" /\ lastOp.calls = 1

\* the monitor locked the user: a live LOCK filed under the user's id
LockCreated ==
  /\ lastOp.log = <<"autolock">>
  /\ file # lastOp.pre.file
  /\ LET punishment == MapGet(userids, lastOp.who.id)
     IN /\ punishment # None /\ ~Stale(punishment, lastOp.t)
        /\ punishment[1] = LOCK /\ punishment[2] = lastOp.who.id

\* the operation added nothing to the global stores or their file
NoGlobalCreated ==
  /\ file = lastOp.pre.file
  /\ Range(ips) \subseteq Range(lastOp.pre.ips)
  /\ Range(userids) \subseteq Range(lastOp.pre.userids)

\* C8 as stated (repeat-offender escalation): after a room punishment is
\* recorded in a public room with autolock enabled, a live global LOCK is
\* created if and only if the count of public-room punishments is at least
\* the configured minimum and the points are at least 8; otherwise only a
\* notice is emitted and no global punishment is created.
C8_EscalationIff ==
  (RoomPunishCase /\ Monitored(Rooms(lastOp.room)) /\ config.punishmentautolock) =>
    /\ LockCreated <=> (Tally.count >= MinPunishments /\ Tally.points >= 8)
    /\ ~LockCreated => (lastOp.log = <<"notice">> /\ NoGlobalCreated)

\* the monitor gets as far as scoring: the room is public (not private,
\* personal or a battle), the session is not locked already, the minimum is
\* not zero, and the count has reached it
Scored ==
  /\ Monitored(Rooms(lastOp.room))
  /\ ~(lastOp.who.session # 0 /\ lastOp.pre.users[lastOp.who.session].locked # <<>>)
  /\ MinPunishments # 0
  /\ Tally.count >= MinPunishments

\* C8 (repeat-offender escalation, with its exemptions): after one room
\* punishment is recorded, a live global LOCK is created if and only if the
\* monitor gets as far as scoring, autolock is enabled and the points are at
\* least 8; a notice is emitted if and only if it gets as far as scoring and
\* autolock is off or the points are below 8; in every other case nothing is
\* emitted; and without the LOCK no global punishment is created.
C8_EscalationExact ==
  RoomPunishCase =>
    LET past == config.punishmentautolock /\ Tally.points >= 8
    IN /\ LockCreated <=> (Scored /\ past)
       /\ lastOp.log = <<"notice">> <=> (Scored /\ ~past)
       /\ ~Scored => lastOp.log = <<>>
       /\ ~LockCreated => NoGlobalCreated

\* a mute, counted for 2 points, takes part in an autolock
C8_Witness ==
  /\ RoomPunishCase
  /\ LockCreated
  /\ \E i \in DOMAIN ChatRooms :
        /\ LiveIn(roomUserids, ChatRooms[i].id, lastOp.who.id, lastOp.t) = None
        /\ RoomTally(ChatRooms[i]).count > 0

\* the room stores hold no inner store without entries
NoEmptyScope(M) == \A i \in DOMAIN M : M[i].v # <<>>

\* C11: after any sequence of room operations neither roomUserids nor roomIps
\* maps a room id to an empty inner store
C11_NoEmptyScopes == NoEmptyScope(roomUserids) /\ NoEmptyScope(roomIps)

\* the columns of the well-formed rows of a file that have not expired at t:
\* four columns or more, not the header, a number after t in the fourth
WellFormedRows(data, t) ==
  {cols \in {Split(Trim(row), "\t") : row \in Range(Split(data, "\n"))} :
     /\ Len(cols) >= 4
     /\ cols[1] # STR_Punishment
     /\ Number(cols[4]) # NaN /\ t < Number(cols[4])}

\* the row is in the store: its primary id holds a punishment of the row's
\* kind and id
RowRegistered(cols) ==
  IF lastOp.file = "global"
  THEN /\ MapHas(userids, cols[2])
       /\ MapGet(userids, cols[2])[1] = cols[1] /\ MapGet(userids, cols[2])[2] = cols[2]
  ELSE LET parts == Split(cols[2], ":")
       IN Len(parts) = 2 /\ parts[2] # <<>> =>
            /\ MapHas(roomUserids, parts[1]) /\ MapHas(MapGet(roomUserids, parts[1]), parts[2])
            /\ MapGet(MapGet(roomUserids, parts[1]), parts[2])[1] = cols[1]

\* C12: for every file content loadPunishments and loadRoomPunishments
\* complete without raising an error, skip each malformed row and register
\* every well-formed unexpired row, also one that follows a malformed row
C12_LoadNeverFatal ==
  lastOp.op = "load" =>
    /\ ~lastOp.threw
    /\ \A cols \in WellFormedRows(lastOp.data, lastOp.t) : RowRegistered(cols)

\* the alias keys of the last row of the global table, as a list
LastRowAliases ==
  LET cols == Split(FileRows[Len(FileRows)], "\t")
  IN IF cols[3] = <<>> THEN <<>> ELSE Split(cols[3], ",")

\* the keys of the global stores that hold the punishment
StoredUnder(punishment) ==
  {e.k : e \in {x \in Range(ips) \cup Range(userids) : x.v = punishment}}

\* C13: the row appended by a top-level punish lists as alias keys exactly
\* the keys under which the cascade stored the punishment, the primaryId left
\* out, each key once
C13_RowComplete ==
  lastOp.op = "punish" =>
    /\ Len(FileRows) >= 1
    /\ Range(LastRowAliases) = StoredUnder(lastOp.punishment) \ {lastOp.punishment[2]}
    /\ Cardinality(Range(LastRowAliases)) = Len(LastRowAliases)

\* the list the identity provider returns for the session: the sessions that
\* are not trusted and have its last id or one of its addresses
ProviderList(sessions, user) ==
  SelectSeq([i \in DOMAIN sessions |-> i],
            LAMBDA i : /\ sessions[i].trusted = <<>>
                       /\ \/ sessions[i].userid = GetLastId(user)
                          \/ Range(sessions[i].ips) \cap (Range(user.ips) \ sharedIps) # {})

\* one invocation without recursionKeys for the target, followed by one
\* with them for each session of the list, and no other
CascadeOf(sessions, user) ==
  <<[userid |-> user.userid, recursion |-> FALSE]>>
  \o [k \in DOMAIN ProviderList(sessions, user) |->
        [userid |-> sessions[ProviderList(sessions, user)[k]].userid, recursion |-> TRUE]]

RowsOf(text) == SelectSeq(Split(text, "\n"), LAMBDA row : row # <<>>)

\* C14: a top-level punish or roomPunish ends, having invoked itself once for
\* each session of the list the identity provider returned; none of these
\* invocations goes through the alternates again, and the cascade appends
\* one row
C14_CascadeOnce ==
  /\ lastOp.op = "punish" =>
       /\ lastOp.calls = CascadeOf(lastOp.pre.users, lastOp.user)
       /\ Len(RowsOf(file)) = Len(RowsOf(lastOp.pre.file)) + 1
  /\ lastOp.op = "roomPunish" /\ lastOp.who.session # 0 =>
       /\ lastOp.cascade = CascadeOf(lastOp.pre.users, lastOp.pre.users[lastOp.who.session])
       /\ Len(RowsOf(roomFile)) = Len(RowsOf(lastOp.pre.roomFile)) + lastOp.calls

\* al has been punished from empty stores: al and its alternate bo were gone
\* through, and cy, an alternate of bo and not of al, was not reached
C14_Witness ==
  /\ lastOp.op = "punish" /\ lastOp.user.userid = ID_al
  /\ lastOp.pre.userids = <<>>
  /\ lastOp.affected = <<1, 2>> /\ Len(lastOp.calls) = 3
  /\ ~MapHas(userids, ID_cy)

\* the identity has a live global lock in these identity entries at time t
LiveLock(useridMap, id, t) ==
  /\ MapHas(useridMap, id)
  /\ Unexpired(MapGet(useridMap, id), t)
  /\ MapGet(useridMap, id)[1] = LOCK

\* C15: the monitor, run by roomPunish for a session or by roomPunishName for
\* a userid, never invokes autolock for an identity that has a live global
\* lock
C15_NoDoubleEscalation ==
  lastOp.op = "roomPunish" /\ "autolock" \in Range(lastOp.log) =>
    ~LiveLock(lastOp.pre.userids, lastOp.who.id, lastOp.t)

\* the entries a room store holds for the room
RoomEntries(M, roomid) == IF MapHas(M, roomid) THEN Range(MapGet(M, roomid)) ELSE {}

\* the punishment that roomUnpunish was called under an alias of: a live
\* entry of the kind asked for, stored in the room under the id given, whose
\* primaryId is another id; None if there is no such entry
AliasedPunishment ==
  LET hits == {e \in RoomEntries(lastOp.pre.roomUserids, lastOp.room) :
                 /\ e.k = ToId(lastOp.id)
                 /\ Unexpired(e.v, lastOp.t)
                 /\ e.v[1] = lastOp.punishType
                 /\ e.v[2] # ToId(lastOp.id)}
  IN IF hits = {} THEN None ELSE (CHOOSE e \in hits : TRUE).v

\* C16: roomUnpunish(room, x, kind), x being an alias under which a live
\* punishment of that kind is stored in the room, resolves x to the primaryId
\* and deletes every entry of the room with that primaryId and kind from
\* both room stores
C16_AliasResolved ==
  lastOp.op = "roomUnpunish" /\ lastOp.via = "roomUnpunish" /\ AliasedPunishment # None =>
    /\ lastOp.resolved = AliasedPunishment[2]
    /\ \A e \in RoomEntries(roomIps, lastOp.room) \cup RoomEntries(roomUserids, lastOp.room) :
         ~(e.v[2] = AliasedPunishment[2] /\ e.v[1] = lastOp.punishType)

\* the room is not private, not personal and not a battle
PublicRoom(roomid) ==
  /\ Rooms(roomid).isPrivate # TRUE
  /\ Rooms(roomid).isPersonal = FALSE
  /\ Rooms(roomid).battle = FALSE

\* C17: after a top-level roomPunish or roomPunishName the monitor has been
\* invoked, once and for the punished user, exactly when the room is not
\* private, not personal and not a battle; otherwise it has not been invoked
C17_MonitorScope ==
  lastOp.op = "roomPunish" =>
    lastOp.monitor = IF PublicRoom(lastOp.room)
                     THEN [k \in 1..lastOp.calls |->
                             IF lastOp.who.session # 0 /\ k = lastOp.calls
                             THEN lastOp.pre.users[lastOp.who.session].userid
                             ELSE ToId(lastOp.asked[2])]
                     ELSE <<>>

\* a punishment has been recorded in a private, personal or battle room
\* without the monitor, after one in a public room
C17_Witness ==
  /\ lastOp.op = "roomPunish" /\ ~PublicRoom(lastOp.room)
  /\ lastOp.monitor = <<>>
  /\ MapHas(roomUserids, lastOp.room)
  /\ \E i \in DOMAIN history : history[i].op = "roomBan" /\ i < Len(history)

\* C18: lock(id) through punishName, for an identity without a session that
\* has a live global entry, leaves the identity with an entry that expires
\* no earlier and is of no weaker kind than the one it had
C18_NameMonotone ==
  lastOp.op = "punishName" /\ lastOp.existing # None =>
    /\ MapHas(userids, lastOp.id)
    /\ ~NumLt(MapGet(userids, lastOp.id)[3], lastOp.existing[3])
    /\ TypeIndex(MapGet(userids, lastOp.id)[1]) >= TypeIndex(lastOp.existing[1])
\* C19: when a top-level punish returns, every key written during its
\* cascade, for the target and for the alternate sessions, holds the same
\* final merged punishment (kind, primaryId, expiry and the rest)
C19_CascadeConsistent ==
  lastOp.op = "punish" =>
    /\ \A k \in lastOp.wIps : MapHas(ips, k) /\ MapGet(ips, k) = lastOp.punishment
    /\ \A k \in lastOp.wUserids : MapHas(userids, k) /\ MapGet(userids, k) = lastOp.punishment

\* lock of al, who has no entry, with the alternate session bo banned: the
\* keys of al are written by the invocation for al, then the invocation for
\* bo merges the lock with the ban
C19_Witness ==
  /\ lastOp.op = "punish" /\ lastOp.via = "lock"
  /\ lastOp.asked[1] = LOCK /\ lastOp.asked[2] = ID_al
  /\ lastOp.existing = None
  /\ Len(lastOp.calls) = 3
  /\ lastOp.calls[2].userid = ID_al /\ lastOp.calls[3].userid = ID_bo
  /\ lastOp.punishment[1] = BAN /\ lastOp.punishment[2] = ID_al
  /\ NumLt(lastOp.asked[3], lastOp.punishment[3])
  /\ ID_al \in lastOp.wUserids /\ IP_1111 \in lastOp.wIps
  /\ MapGet(userids, ID_al) = lastOp.punishment

\* C20: a callback of checkIp (reverse lookup or blocklist query) that runs
\* when connection.user has been reassigned to another session changes the
\* session attached to the connection and no other: '#dnsbl' when the lookup
\* failed with EINVAL or the address is blocked and the attached session is
\* neither locked nor autoconfirmed, latestHost when a host was resolved;
\* the session checkIp was called with is as it was
C20_Expected(user, callback, outcome) ==
  [user EXCEPT
     !.semilocked = IF /\ \/ callback = "reverse" /\ outcome.code = EINVAL
                          \/ callback = "query" /\ outcome.isBlocked
                       /\ user.locked = <<>> /\ user.autoconfirmed = <<>>
                    THEN STR_dnsbl ELSE @,
     !.latestHost = IF callback = "reverse" /\ outcome.host # <<>> THEN outcome.host ELSE @]

C20_StaleSession ==
  lastOp.op = "checkIpCallback" /\ lastOp.attached # 0 /\ lastOp.attached # lastOp.called =>
    /\ users[lastOp.called] = lastOp.pre.users[lastOp.called]
    /\ \A i \in DOMAIN users \ {lastOp.attached} : users[i] = lastOp.pre.users[i]
    /\ users[lastOp.attached] =
         C20_Expected(lastOp.pre.users[lastOp.attached], lastOp.callback, lastOp.outcome)

\* checkIp for one session, the connection given to another, then a callback
\* that semilocks the session now attached
C20_Witness ==
  /\ lastOp.op = "checkIpCallback"
  /\ lastOp.attached # 0 /\ lastOp.attached # lastOp.called
  /\ lastOp.closure = lastOp.called
  /\ users[lastOp.attached] # lastOp.pre.users[lastOp.attached]
  /\ users[lastOp.attached].semilocked = STR_dnsbl

\* C21: when the address of the connection has a live address-level
\* punishment and is in the shared-address registry, checkIp leaves
\* user.locked and user.namelocked as they were, and sets semilocked, only
\* when the user is neither locked nor autoconfirmed
C21_SharedSoftening ==
  lastOp.op = "checkIp" /\ lastOp.punishment # None /\ lastOp.ip \in sharedIps =>
    /\ users[lastOp.user].locked = lastOp.pre.users[lastOp.user].locked
    /\ users[lastOp.user].namelocked = lastOp.pre.users[lastOp.user].namelocked
    /\ users[lastOp.user].semilocked =
         IF /\ lastOp.pre.users[lastOp.user].locked = <<>>
            /\ lastOp.pre.users[lastOp.user].autoconfirmed = <<>>
         THEN STR_sharedip \o lastOp.punishment[2]
         ELSE lastOp.pre.users[lastOp.user].semilocked

\* C22: checkIpBanned returns '#cflood' whenever the address is in the flood
\* table or the counter reports a flood, and the address is then in the
\* flood table; otherwise false for a shared address; otherwise the
\* primaryId of the ipSearch hit if its kind is BAN; otherwise '#ipban' if
\* the range checker matches; otherwise false.  A LOCK or NAMELOCK hit alone
\* rejects nothing
C22_DecisionOrder ==
  lastOp.op = "checkIpBanned" =>
    /\ lastOp.result =
         IF lastOp.ip \in lastOp.cfloods \/ lastOp.flood THEN STR_cflood
         ELSE IF lastOp.ip \in sharedIps THEN False
         ELSE IF lastOp.hit # None /\ lastOp.hit[1] = BAN THEN lastOp.hit[2]
         ELSE IF lastOp.rangeBanned THEN STR_ipban
         ELSE False
    /\ lastOp.result = STR_cflood => lastOp.ip \in cfloods
    /\ lastOp.result # STR_cflood => cfloods = lastOp.cfloods
    /\ lastOp.result # STR_cflood /\ lastOp.ip \notin sharedIps =>
         lastOp.hit = IpSearch(lastOp.pre.ips, lastOp.ip, lastOp.t).val
    /\ (lastOp.hit # None /\ lastOp.hit[1] \in {LOCK, NAMELOCK} /\ ~lastOp.rangeBanned
        /\ ~lastOp.flood /\ lastOp.ip \notin lastOp.cfloods) => lastOp.result = False

\* a flooded connection from a shared address that a live BAN covers
C22_Witness ==
  /\ lastOp.op = "checkIpBanned" /\ lastOp.result = STR_cflood
  /\ lastOp.ip \in sharedIps
  /\ IpSearch(ips, lastOp.ip, now).val # None
  /\ IpSearch(ips, lastOp.ip, now).val[1] = BAN

\* the live entry of a room store under a key, None without one
LiveRoomEntry(M, roomid, key, t) == NestedGet(M, roomid, key, t).val

\* a live ROOMBAN or BLACKLIST
RoomBanEntry(punishment) == punishment # None /\ punishment[1] \in {ROOMBAN, BLACKLIST}

\* the user has no ban under its ids in the room, and the first of its
\* addresses with a live entry there has a BLACKLIST and is a shared address
SharedHitOnly(w, user, roomid, shared, t) ==
  /\ user.autoconfirmed # <<>>
  /\ ~RoomBanEntry(LiveRoomEntry(w.roomUserids, roomid, user.userid, t))
  /\ ~RoomBanEntry(LiveRoomEntry(w.roomUserids, roomid, user.autoconfirmed, t))
  /\ \E i \in DOMAIN user.ips :
       /\ user.ips[i] \in shared
       /\ LiveRoomEntry(w.roomIps, roomid, user.ips[i], t) # None
       /\ LiveRoomEntry(w.roomIps, roomid, user.ips[i], t)[1] = BLACKLIST
       /\ \A j \in 1..(i - 1) : LiveRoomEntry(w.roomIps, roomid, user.ips[j], t) = None

\* C23: when the address hit of an autoconfirmed user in a room is a
\* BLACKLIST on a shared address, isRoomBanned goes on to the parent room: a
\* live ROOMBAN or BLACKLIST of the user there is returned
C23_SuppressOnlyHit ==
  (/\ lastOp.op = "isRoomBanned"
   /\ SharedHitOnly(lastOp.pre, lastOp.user, lastOp.room, sharedIps, lastOp.t)
   /\ ParentOf(lastOp.room) # <<>>
   /\ RoomBanEntry(LiveRoomEntry(lastOp.pre.roomUserids, ParentOf(lastOp.room),
                                 lastOp.user.userid, lastOp.t)))
  => RoomBanEntry(lastOp.val)

\* the rows of the room table
RoomFileRows == SelectSeq(Split(roomFile, "\n"), LAMBDA row : row # <<>>)

\* the user primaryId of a row of the room table: what follows 'roomid:'
RowUserId(row) ==
  LET id == Split(row, "\t")[2]
  IN IF ":" \in Range(id) THEN SubSeq(id, Len(Split(id, ":")[1]) + 2, Len(id)) ELSE <<>>

\* C24: no row of the room table, rewritten by saveRoomPunishments or
\* appended by roomPunish or roomPunishName, has a user primaryId that starts
\* with '#'
C24_NoReservedRoomRows ==
  \A i \in DOMAIN RoomFileRows :
    Len(Split(RoomFileRows[i], "\t")) >= 2 => ~Reserved(RowUserId(RoomFileRows[i]))

\* only ban, lock, namelock, lock by name and unpunish have been called,
\* while sessions went away
OnlyPunishAndLift ==
  \A i \in DOMAIN history : history[i].op \in {"ban", "lock", "namelock", "unpunish", "destroy"}

\* C25: after any sequence of ban, lock, namelock, punishName and unpunish,
\* two live entries of the global stores with the same primaryId have the
\* same kind and the same expiry, and a successful unpunish(primaryId, kind)
\* leaves no live entry with that primaryId
C25_OnePerPrimaryId ==
  OnlyPunishAndLift =>
    /\ \A e1, e2 \in GlobalEntries(ips, userids, now) :
         e1.v[2] = e2.v[2] => e1.v[1] = e2.v[1] /\ e1.v[3] = e2.v[3]
    /\ lastOp.op = "unpunish" /\ lastOp.success =>
         \A e \in GlobalEntries(ips, userids, now) : e.v[2] # lastOp.resolved

\* C26: isRoomBanned returns nothing or a punishment whose kind is ROOMBAN
\* or BLACKLIST: an entry of another kind under the user's userid,
\* autoconfirmed id or address is not returned as a ban
C26_OnlyBans ==
  lastOp.op = "isRoomBanned" => lastOp.val = None \/ lastOp.val[1] \in {ROOMBAN, BLACKLIST}

\* the userid has a live ROOMBAN or BLACKLIST in the parent of the room and
\* the user has no live entry under its ids in the room itself
BannedInParentOnly(w, user, userid, roomid, t) ==
  /\ ParentOf(roomid) # <<>>
  /\ RoomBanEntry(LiveRoomEntry(w.roomUserids, ParentOf(roomid), userid, t))
  /\ LiveRoomEntry(w.roomUserids, roomid, userid, t) = None
  /\ LiveRoomEntry(w.roomUserids, roomid, user.userid, t) = None
  /\ user.autoconfirmed # <<>> =>
       LiveRoomEntry(w.roomUserids, roomid, user.autoconfirmed, t) = None

\* C27: for a user whose userid has a live ROOMBAN or BLACKLIST in the
\* parent room and no entry in the child room, checkNameInRoom(user, child)
\* returns true, and checkNewNameInRoom(user, userid, child) returns that
\* punishment and removes the user from the child room
C27_NameChecksInherit ==
  /\ (/\ lastOp.op = "checkNameInRoom"
      /\ BannedInParentOnly(lastOp.pre, lastOp.user, lastOp.user.userid, lastOp.room, lastOp.t))
     => lastOp.val = "true"
  /\ (/\ lastOp.op = "checkNewNameInRoom"
      /\ BannedInParentOnly(lastOp.pre, lastOp.user, lastOp.userid, lastOp.room, lastOp.t))
     => /\ lastOp.val = LiveRoomEntry(lastOp.pre.roomUserids, ParentOf(lastOp.room),
                                      lastOp.userid, lastOp.t)
        /\ lastOp.room \notin users[lastOp.session].inRooms

\* C28: roomPunish or roomPunishName applied to an identity that has a live
\* punishment in the room leaves the identity's entry in that room with an
\* expiry that is not earlier than before
C28_RoomNotShortened ==
  (/\ lastOp.op = "roomPunish"
   /\ LiveRoomEntry(lastOp.pre.roomUserids, lastOp.room, lastOp.who.id, lastOp.t) # None)
  => /\ LiveRoomEntry(roomUserids, lastOp.room, lastOp.who.id, lastOp.t) # None
     /\ ~NumLt(LiveRoomEntry(roomUserids, lastOp.room, lastOp.who.id, lastOp.t)[3],
               LiveRoomEntry(lastOp.pre.roomUserids, lastOp.room, lastOp.who.id, lastOp.t)[3])

\* the room has a live BLACKLIST entry in the store M
LiveBlacklistIn(M, roomid, t) ==
  /\ MapHas(M, roomid)
  /\ \E i \in DOMAIN MapGet(M, roomid) :
        /\ MapGet(M, roomid)[i].v[1] = BLACKLIST
        /\ Unexpired(MapGet(M, roomid)[i].v, t)

\* the room has a BLACKLIST entry, live or not, in the store M
BlacklistIn(M, roomid) ==
  /\ MapHas(M, roomid)
  /\ \E i \in DOMAIN MapGet(M, roomid) : MapGet(M, roomid)[i].v[1] = BLACKLIST

\* C29: after roomUnblacklistAll(room) neither room store has a live BLACKLIST
\* entry of the room, and false is returned only when the room had no
\* BLACKLIST entry in either store
C29_UnblacklistAllComplete ==
  lastOp.op = "roomUnblacklistAll"
  => /\ ~LiveBlacklistIn(roomUserids, lastOp.room, lastOp.t)
     /\ ~LiveBlacklistIn(roomIps, lastOp.room, lastOp.t)
     /\ (~lastOp.val => /\ ~BlacklistIn(lastOp.pre.roomUserids, lastOp.room)
                        /\ ~BlacklistIn(lastOp.pre.roomIps, lastOp.room))

C29_Witness ==
  /\ lastOp.op = "roomUnblacklistAll"
  /\ lastOp.val
  /\ LiveBlacklistIn(lastOp.pre.roomUserids, lastOp.room, lastOp.t)
  /\ LiveBlacklistIn(lastOp.pre.roomIps, lastOp.room, lastOp.t)

\* a live LOCK entry with that primaryId in the global store m
LiveLockIn(m, id, t) ==
  \E i \in DOMAIN m : m[i].v[1] = LOCK /\ m[i].v[2] = id /\ Unexpired(m[i].v, t)

\* C30: when unlock(name) has cleared the locked flag of a session and
\* returned a list, no live LOCK entry with the primaryId those sessions were
\* locked under is left in the global stores
C30_UnlockConsistent ==
  (lastOp.op = "unlock" /\ lastOp.cleared # {} /\ lastOp.val # <<>>)
  => /\ ~LiveLockIn(ips, lastOp.id, lastOp.t)
     /\ ~LiveLockIn(userids, lastOp.id, lastOp.t)

\* the list has at most one pair for each room
OnePairPerRoom(list) ==
  \A i, j \in DOMAIN list : list[i].room = list[j].room => i = j

\* C31: the list getRoomPunishments returns, for a session or a name and any
\* options, has at most one [room, punishment] pair for each room
C31_OnePairPerRoom ==
  lastOp.op = "getRoomPunishments" => OnePairPerRoom(lastOp.list)

====
